---------------------------- MODULE Spec2Model ----------------------------
(***************************************************************************)
(* A model of the frequency-smoothing encryption library: the partition-   *)
(* based scheme (ContextPFSE), the homophonic scheme with its two encoders *)
(* (ContextLPFSE, EncoderIHBE, EncoderBHE) and the AES-GCM baseline        *)
(* (ContextNative).                                                        *)
(*                                                                         *)
(* f64 values are modelled as exact rationals <<num, den>> with den > 0.   *)
(* e^(-x) is tabulated to four decimals for x a multiple of 1/4.           *)
(* AES-256-GCM is modelled as an ideal sealed box: opening succeeds only   *)
(* with the sealing key and nonce. Base64 is a tagged wrapper that only    *)
(* decodes what it encoded.                                                *)
(***************************************************************************)
EXTENDS Integers, Sequences, FiniteSets, TLC

\* ------------------------------------------------------------------ bounds

\* Longest training sample handed to partition / initialize.
MaxLen == 6

\* Number of distinct keys key_generate can draw.
NumKeys == 2

\* Longest training sample handed to the LPFSE and baseline schemes.
MaxLenLP == 3

\* Number of distinct non-zero nonces the random generator can draw.
NumNonces == 2

\* ------------------------------------------------------- program constants

\* std::mem::size_of::<usize>() on the 64-bit targets the crate is built for.
SizeOfUsize == 8

\* std::mem::size_of::<u64>().
SizeOfU64 == 8

\* b"|"
SEP == 124

\* ---------------------------------------------------------------- rationals

Abs(x) == IF x < 0 THEN -x ELSE x

RECURSIVE Gcd(_, _)
Gcd(a, b) == IF b = 0 THEN a ELSE Gcd(b, a % b)

\* A rational in lowest terms with a positive denominator.
Rat(n, d) ==
    LET g == Gcd(Abs(n), Abs(d))
        s == IF d < 0 THEN -1 ELSE 1
    IN  <<(s * n) \div g, (s * d) \div g>>

RAdd(a, b) == Rat(a[1] * b[2] + b[1] * a[2], a[2] * b[2])
RSub(a, b) == Rat(a[1] * b[2] - b[1] * a[2], a[2] * b[2])
RMul(a, b) == Rat(a[1] * b[1], a[2] * b[2])
RDiv(a, b) == Rat(a[1] * b[2], a[2] * b[1])
RLt(a, b) == a[1] * b[2] < b[1] * a[2]
RLe(a, b) == a[1] * b[2] <= b[1] * a[2]
RInt(n) == <<n, 1>>

\* f64::floor, f64::ceil and f64::round (half away from zero) followed by
\* `as usize`, which saturates negative values to 0.
RFloor(a) == a[1] \div a[2]
RCeil(a) == -((-a[1]) \div a[2])
RRound(a) ==
    IF a[1] >= 0 THEN (2 * a[1] + a[2]) \div (2 * a[2])
    ELSE -((2 * (-a[1]) + a[2]) \div (2 * a[2]))
AsUsize(x) == IF x < 0 THEN 0 ELSE x

RECURSIVE Pow2(_)
Pow2(k) == IF k <= 0 THEN 1 ELSE 2 * Pow2(k - 1)

\* -------------------------------------------------------------- sequences

RECURSIVE SumSeq(_)
SumSeq(s) == IF s = <<>> THEN 0 ELSE Head(s) + SumSeq(Tail(s))

Range(s) == {s[i] : i \in DOMAIN s}

\* The counts of a histogram slice.
Counts(inner) == [i \in DOMAIN inner |-> inner[i][2]]

\* vec![x; n]
Repeat(x, n) == [i \in 1..n |-> x]

\* An insert that loses the element.
InsertAt_dropped(v, pos, x) == v

\* v.insert(pos, x) with pos 0-based.
InsertAt(v, pos, x) == SubSeq(v, 1, pos) \o <<x>> \o SubSeq(v, pos + 1, Len(v))


\* ------------------------------------------------------------ input domain

\* The plaintext messages (String) as their bytes: "a", "b" and "a|".
Msgs == {<<97>>, <<98>>, <<97, 124>>}

\* A message that is never part of a training sample.
Unseen == <<122>>

\* Training samples: every sequence of messages of length 0..MaxLen, taken
\* up to the order of its elements when only its histogram is read.
RECURSIVE SortedSeqs(_, _)
SortedSeqs(len, pool) ==
    IF len = 0 THEN {<<>>}
    ELSE UNION {{<<m>> \o t : t \in SortedSeqs(len - 1, {x \in pool : Len(x) > Len(m) \/ (Len(x) = Len(m) /\ x[1] >= m[1])})} : m \in pool}

Inputs == UNION {SortedSeqs(l, Msgs) : l \in 0..MaxLen}

\* The f64 parameters the configuration surface offers: lambda, k0 and A.
Lambdas == {<<1, 4>>, <<1, 2>>, <<1, 1>>}
Scales == {<<1, 1>>, <<2, 1>>}
Advantages == {<<1, 2>>, <<1, 8>>}

\* ---------------------------------------------------------------- util.rs

build_histogram(dataset) ==
    [m \in Range(dataset) |-> Cardinality({i \in DOMAIN dataset : dataset[i] = m})]

\* The vectors build_histogram_vec can return: the entries of the map in
\* any iteration order, then stably sorted by count descending.
build_histogram_vec(histogram) ==
    LET keys == DOMAIN histogram
        k == Cardinality(keys)
    IN  {[i \in 1..k |-> <<f[i], histogram[f[i]]>>] :
            f \in {g \in [1..k -> keys] :
                     /\ \A a, b \in 1..k : a # b => g[a] # g[b]
                     /\ \A a \in 1..(k - 1) : histogram[g[a]] >= histogram[g[a + 1]]}}

\* ----------------------------------------------------------------- fse.rs

\* round(10000 * e^(-q/4)) for q = 0, 1, 2, ...
ExpTable ==
    <<10000, 7788, 6065, 4724, 3679, 2865, 2231, 1738, 1353, 1054, 821, 639,
      498, 388, 302, 235, 183, 143, 111, 87, 67, 52, 41, 32, 25, 19, 15, 12,
      9, 7, 6, 4, 3, 3, 2, 2, 1, 1, 1, 1>>

\* E.powf(-x) for a rational x >= 0 that is a multiple of 1/4.
ExpNeg(x) ==
    LET q == (4 * x[1]) \div x[2]
    IN  IF q + 1 <= Len(ExpTable) THEN Rat(ExpTable[q + 1], 10000) ELSE <<0, 1>>

\* pub fn exponential(param, x) = param * E.powf(-param * (x - 1))
exponential(param, x) == RMul(param, ExpNeg(RMul(param, RInt(x - 1))))

\* fn exp(param, index) = param * E.powf(-param * index), the function the
\* crate's tests hand to partition.
exp(param, index) == RMul(param, ExpNeg(RMul(param, RInt(index))))

PartitionFuncs == {"exponential", "exp"}

\* Calling the fn(f64, usize) -> f64 pointer stored in partition_func.
call_partition_func(f, param, x) ==
    IF f = "exponential" THEN exponential(param, x) ELSE exp(param, x)

\* ---------------------------------------------------------------- pfse.rs

\* Partition::new
Partition_new(inner, index, cumulative_frequency) ==
    [inner |-> inner,
     meta |-> [index |-> index,
               cumulative_frequency |-> cumulative_frequency,
               message_num |-> SumSeq(Counts(inner))]]

\* Partition::max_freq
max_freq(p) == Rat(p.inner[1][2], p.meta.message_num)

\* An inner loop that never advances j.
grow_stuck(hv, j, s, n, value) == <<j, s>>

\* The inner `while j < histogram_vec.len() && sum < value` of partition:
\* <<j, n * sum>> when it ends.
RECURSIVE grow(_, _, _, _, _)
grow(hv, j, s, n, value) ==
    IF j < Len(hv) /\ RLt(<<s, n>>, value)
    THEN grow(hv, j + 1, s + hv[j + 1][2], n, value)
    ELSE <<j, s>>

\* The positions slice.binary_search_by(|(_, freq)| second.cmp(freq))
\* .unwrap_or_else(|e| e) can return on a slice sorted by count descending:
\* the index of any equal element, or else the insertion point.
binary_search_pos(slice, second) ==
    LET eq == {p \in 0..(Len(slice) - 1) : slice[p + 1][2] = second}
    IN  IF eq # {} THEN eq
        ELSE {Cardinality({p \in 1..Len(slice) : slice[p][2] > second})}


\* The `while i < histogram_vec.len()` loop of partition. The result is the
\* set of outcomes [parts, splits] it can end with: parts are the partitions
\* pushed, splits counts the iterations that took the `sum > value` branch.
RECURSIVE partition_loop(_, _, _, _, _, _, _, _)
partition_loop(p_partition, p_scale, n, func, hv, i, group, acc) ==
    IF ~(i < Len(hv)) THEN {acc}
    ELSE
      LET value == RMul(call_partition_func(func, p_partition, group), p_scale)
      IN
      IF RLe(RMul(value, RInt(n)), RInt(1))
      THEN {[parts |-> Append(acc.parts,
                        Partition_new(SubSeq(hv, i + 1, Len(hv)), group,
                                      Rat(SumSeq(Counts(SubSeq(hv, i + 1, Len(hv)))), n))),
             splits |-> acc.splits]}
      ELSE
        LET g == grow(hv, i, 0, n, value)
            j == g[1]
            sum == Rat(g[2], n)
        IN
        IF RLt(value, sum)
        THEN
          LET diff == RSub(sum, value)
              cnt == hv[j][2]
              message_first_part ==
                  <<hv[j][1], AsUsize(RCeil(RMul(RInt(cnt), RSub(RInt(1), diff))))>>
              message_second_part ==
                  <<hv[j][1], AsUsize(RFloor(RMul(RInt(cnt), diff)))>>
              hv1 == [hv EXCEPT ![j] = message_first_part]
              acc1 == [parts |-> Append(acc.parts,
                                   Partition_new(SubSeq(hv1, i + 1, j), group, value)),
                       splits |-> acc.splits + 1]
          IN
          IF message_second_part[2] # 0
          THEN UNION {partition_loop(p_partition, p_scale, n, func,
                                     InsertAt(hv1, pos + j, message_second_part),
                                     j, group + 1, acc1) :
                        pos \in binary_search_pos(SubSeq(hv1, j + 1, Len(hv1)),
                                                  message_second_part[2])}
          ELSE partition_loop(p_partition, p_scale, n, func, hv1, j, group + 1, acc1)
        ELSE
          partition_loop(p_partition, p_scale, n, func, hv, j, group + 1,
                         [parts |-> Append(acc.parts,
                                     Partition_new(SubSeq(hv, i + 1, j), group, value)),
                          splits |-> acc.splits])


\* ------------------------------------------------- aes_gcm, base64, Option

None == [tag |-> "None"]
Some(v) == [tag |-> "Some", val |-> v]

\* Vec::new(), the key of an instance on which key_generate never ran.
NoKey == 0
Keys == 1..NumKeys

\* Aes256Gcm::new_from_slice(&key) is Ok only for a 32-byte key.
ValidKey(key) == key \in Keys

\* &[0u8; 12]
ZeroNonce == 0

\* x.to_le_bytes() of an integer `width` bytes wide.
RECURSIVE to_le_bytes(_, _)
to_le_bytes(x, width) ==
    IF width = 0 THEN <<>> ELSE <<x % 256>> \o to_le_bytes(x \div 256, width - 1)

\* aes.encrypt(nonce, plaintext): the sealed box.
Seal(key, nonce, plaintext) == [key |-> key, nonce |-> nonce, pt |-> plaintext]

\* general_purpose::STANDARD_NO_PAD.encode(..).into_bytes()
b64encode(box) == [b64 |-> box]

\* A Vec<u8> that was not produced by b64encode.
RawBytes(bytes) == [raw |-> bytes]

\* STANDARD_NO_PAD.decode followed by aes.decrypt(nonce, ..): the plaintext,
\* or None when the text is no base64 of a box sealed under this key and nonce.
decode_and_open(key, nonce, ciphertext) ==
    IF "b64" \in DOMAIN ciphertext
       /\ ciphertext.b64.key = key /\ ciphertext.b64.nonce = nonce
    THEN Some(ciphertext.b64.pt)
    ELSE None

\* T::random(len) for String: the text of `len` fresh random bytes. 256 is no
\* byte, so the value differs from every training message; `seed` tells the
\* draws apart.
random(len, seed) == <<256, len>> \o seed

\* pub const DEFAULT_RANDOM_LEN
DEFAULT_RANDOM_LEN == 32

\* ------------------------------------------------------------ ContextPFSE

\* ContextPFSE::default()
ContextPFSE_default ==
    [is_ready |-> FALSE,
     key |-> NoKey,
     local_table |-> <<>>,
     p_partition |-> <<0, 1>>,
     p_scale |-> <<0, 1>>,
     p_advantage |-> <<0, 1>>,
     partition_func |-> "None",
     message_num |-> 0,
     partitions |-> <<>>]

\* local_table.entry(message).or_default().push(value)
entry_push(table, message, value) ==
    IF message \in DOMAIN table
    THEN [table EXCEPT ![message] = Append(@, value)]
    ELSE table @@ (message :> <<value>>)

\* A token that leaves the partition index out.
pfse_token_no_index(message, index, j) ==
    message \o <<SEP>> \o <<SEP>> \o to_le_bytes(j, SizeOfUsize)

\* The AEAD plaintext of the j-th homophone of `message` in partition `index`.
pfse_token(message, index, j) ==
    message \o <<SEP>> \o to_le_bytes(index, SizeOfUsize)
            \o <<SEP>> \o to_le_bytes(j, SizeOfUsize)

\* The `for j in 0..size` loop of encrypt_impl for one local-table entry.
RECURSIVE encrypt_entry(_, _, _, _, _)
encrypt_entry(key, message, value, j, repeat) ==
    IF ~(j < value[2]) THEN <<>>
    ELSE LET encoded_ciphertext ==
                 b64encode(Seal(key, ZeroNonce, pfse_token(message, value[1], j)))
         IN  (IF repeat THEN Repeat(encoded_ciphertext, value[3])
                        ELSE <<encoded_ciphertext>>)
             \o encrypt_entry(key, message, value, j + 1, repeat)

RECURSIVE encrypt_entries(_, _, _, _)
encrypt_entries(key, message, values, repeat) ==
    IF values = <<>> THEN <<>>
    ELSE encrypt_entry(key, message, Head(values), 0, repeat)
         \o encrypt_entries(key, message, Tail(values), repeat)

\* An encrypt_impl that answers an unknown message with an empty list.
encrypt_impl_lenient(self, message, repeat) ==
    IF ~ValidKey(self.key) THEN None
    ELSE IF message \notin DOMAIN self.local_table THEN Some(<<>>)
    ELSE Some(encrypt_entries(self.key, message, self.local_table[message], repeat))

\* ContextPFSE::encrypt_impl
encrypt_impl(self, message, repeat) ==
    IF message \notin DOMAIN self.local_table THEN None
    ELSE IF ~ValidKey(self.key) THEN None
    ELSE Some(encrypt_entries(self.key, message, self.local_table[message], repeat))

\* ContextPFSE::encrypt
pfse_encrypt(self, message) == encrypt_impl(self, message, FALSE)

\* A suffix length that forgets one separator byte.
pfse_suffix_len_short == SizeOfUsize * 2 + 1

\* The number of bytes ContextPFSE::decrypt truncates.
pfse_suffix_len == SizeOfUsize * 2 + 2

\* ContextPFSE::decrypt. "Panic" stands for the usize underflow of
\* plaintext.len() - 18 on a plaintext shorter than the suffix.
pfse_decrypt(self, ciphertext) ==
    IF ~ValidKey(self.key) THEN None
    ELSE LET plaintext == decode_and_open(self.key, ZeroNonce, ciphertext)
         IN  IF plaintext = None THEN None
             ELSE IF Len(plaintext.val) < pfse_suffix_len THEN [tag |-> "Panic"]
             ELSE Some(SubSeq(plaintext.val, 1, Len(plaintext.val) - pfse_suffix_len))


\* The members loop with the set size rounded down instead of up.
RECURSIVE transform_members_floor(_, _, _, _, _)
transform_members_floor(table, inner, index, k_prime_one, sum) ==
    IF inner = <<>> THEN <<table, sum>>
    ELSE LET size == AsUsize(RFloor(RMul(k_prime_one, RInt(Head(inner)[2]))))
         IN  transform_members_floor(
                 entry_push(table, Head(inner)[1],
                            <<index, size, AsUsize(RRound(RDiv(RInt(1), k_prime_one)))>>),
                 Tail(inner), index, k_prime_one, sum + size)

\* The `for (message, cnt) in partition.inner.iter()` loop of transform:
\* <<local_table, sum>> when it ends.
RECURSIVE transform_members(_, _, _, _, _)
transform_members(table, inner, index, k_prime_one, sum) ==
    IF inner = <<>> THEN <<table, sum>>
    ELSE LET message == Head(inner)[1]
             cnt == Head(inner)[2]
             size == AsUsize(RCeil(RMul(k_prime_one, RInt(cnt))))
             k_prime_one_reciprocal == RDiv(RInt(1), k_prime_one)
         IN  transform_members(
                 entry_push(table, message,
                            <<index, size, AsUsize(RRound(k_prime_one_reciprocal))>>),
                 Tail(inner), index, k_prime_one, sum + size)

\* The `for _ in sum..delta` loop of transform: the dummies it pushes.
dummies(index, sum, delta, k_prime_one) ==
    LET cnt == AsUsize(RCeil(RDiv(RInt(1), k_prime_one)))
        times == IF delta > sum THEN delta - sum ELSE 0
    IN  [t \in 1..times |-> <<random(DEFAULT_RANDOM_LEN, <<index, t>>), cnt>>]

\* The `for (index, partition) in self.partitions.iter_mut().enumerate()`
\* loop of transform, from partition `index` (0-based) on.
RECURSIVE transform_loop(_, _)
transform_loop(self, index) ==
    IF ~(index < Len(self.partitions)) THEN self
    ELSE
      LET k == RInt(Len(self.partitions))
          n == RInt(self.message_num)
          partition == self.partitions[index + 1]
          f_i == Rat(SumSeq([e \in DOMAIN partition.inner |->
                               partition.inner[e][2] * partition.inner[e][2]]),
                     self.message_num * self.message_num)
          cur_func == call_partition_func(self.partition_func, self.p_partition, index + 1)
          k_prime_one == RDiv(cur_func, k)
          n_i == AsUsize(RCeil(RDiv(RMul(n, f_i), self.p_advantage)))
          members == transform_members(self.local_table, partition.inner, index,
                                       k_prime_one, 0)
          sum == members[2]
          delta == IF n_i >= sum THEN n_i - sum ELSE 0
          inner == partition.inner \o dummies(index, sum, delta, k_prime_one)
      IN  transform_loop(
              [self EXCEPT !.local_table = members[1],
                           !.partitions[index + 1].inner = inner],
              index + 1)

\* ContextPFSE::transform
transform(self) ==
    LET baseline == IF self.partitions = <<>> THEN <<0, 1>>
                    ELSE LET mf == [i \in DOMAIN self.partitions |->
                                      max_freq(self.partitions[i])]
                             RECURSIVE acc(_)
                             acc(i) == IF i = 0 THEN <<0, 1>> ELSE RAdd(acc(i - 1), mf[i])
                         IN  acc(Len(mf))
    IN  transform_loop([self EXCEPT !.p_advantage = RMul(@, baseline)], 0)

\* The `(message, cnt)` pairs smooth walks, partition after partition.
RECURSIVE members_in_order(_)
members_in_order(partitions) ==
    IF partitions = <<>> THEN <<>>
    ELSE Head(partitions).inner \o members_in_order(Tail(partitions))

\* The two nested loops of smooth over the pairs still to visit.
RECURSIVE smooth_loop(_, _, _)
smooth_loop(self, todo, visited) ==
    IF todo = <<>> THEN <<>>
    ELSE LET message == Head(todo)[1]
             cnt == Head(todo)[2]
         IN  IF message \in visited THEN smooth_loop(self, Tail(todo), visited)
             ELSE LET c == pfse_encrypt(self, message)
                  IN  (IF c # None THEN c.val
                       ELSE Repeat(RawBytes(message), cnt))
                      \o smooth_loop(self, Tail(todo), visited \cup {message})

\* ContextPFSE::smooth
smooth(self) == smooth_loop(self, members_in_order(self.partitions), {})


\* ContextPFSE::key_generate
pfse_key_generate(self, fresh_key) == [self EXCEPT !.key = fresh_key]

\* A set_params that marks the instance ready whatever the length of params.
set_params_ready(self, params) ==
    IF Len(params) # 3 THEN [self EXCEPT !.is_ready = TRUE]
    ELSE [self EXCEPT !.p_partition = params[1],
                      !.p_scale = params[2],
                      !.p_advantage = params[3],
                      !.is_ready = TRUE]

\* ContextPFSE::set_params
set_params(self, params) ==
    IF Len(params) # 3 THEN self
    ELSE [self EXCEPT !.p_partition = params[1],
                      !.p_scale = params[2],
                      !.p_advantage = params[3],
                      !.is_ready = TRUE]

\* ContextPFSE::partition: the outcomes [ctx, panicked, splits] of one call.
partition(self, input, func) ==
    LET self1 == [self EXCEPT !.partition_func = func]
    IN  IF ~self1.is_ready
        THEN {[ctx |-> self1, panicked |-> TRUE, splits |-> 0]}
        ELSE LET self2 == [self1 EXCEPT !.message_num = Len(input)]
             IN  UNION {
                   {[ctx |-> [self2 EXCEPT !.partitions = r.parts],
                     panicked |-> FALSE,
                     splits |-> r.splits] :
                      r \in partition_loop(self2.p_partition, self2.p_scale,
                                           self2.message_num, func, histogram_vec,
                                           0, 1,
                                           [parts |-> self2.partitions, splits |-> 0])} :
                   histogram_vec \in build_histogram_vec(build_histogram(input))}

\* ------------------------------------------------------------ db.rs, fse.rs

\* A search that ignores its filter.
conn_search_unfiltered(collection, tokens) == collection

\* Connector::search with the `$or` filter built from `tokens`: the stored
\* documents whose data equals one of them, in collection order.
conn_search(collection, tokens) ==
    LET hit(d) == d \in Range(tokens)
    IN  SelectSeq(collection, hit)

\* query_result.chunks(4096)
ChunkSize == 4096

\* A chunking that sends all terms in one request.
chunks_unbounded(v, size) == IF v = <<>> THEN <<>> ELSE <<v>>

RECURSIVE chunks(_, _)
chunks(v, size) ==
    IF v = <<>> THEN <<>>
    ELSE IF Len(v) <= size THEN <<v>>
    ELSE <<SubSeq(v, 1, size)>> \o chunks(SubSeq(v, size + 1, Len(v)), size)

\* T::from_bytes(&self.decrypt(data).unwrap_or_default())
from_decrypted(plain) == IF plain.tag = "Some" THEN plain.val ELSE <<>>

\* BaseCrypto::search_impl for a scheme whose decrypt results are
\* `decrypted`, a function of the stored document.
RECURSIVE search_chunks(_, _, _)
search_chunks(collection, requests, decrypted) ==
    IF requests = <<>> THEN <<>>
    ELSE LET data == conn_search(collection, Head(requests))
         IN  [i \in DOMAIN data |-> from_decrypted(decrypted[data[i]])]
             \o search_chunks(collection, Tail(requests), decrypted)

\* BaseCrypto::search for ContextPFSE
pfse_search(self, collection, message) ==
    LET ciphertexts == pfse_encrypt(self, message)
    IN  IF ciphertexts = None THEN None
        ELSE Some(search_chunks(collection, chunks(ciphertexts.val, ChunkSize),
                                [d \in Range(collection) |-> pfse_decrypt(self, d)]))


\* ------------------------------------------------------------- f64 rounding

\* Natural numbers below 2^81 as three limbs <<a, b, c>> in base 2^27, the
\* value a * 2^54 + b * 2^27 + c. The operations below are functions, so that
\* an argument is a value when the body reads it.
Limb == Pow2(27)
WNat == Nat \X Nat \X Nat

\* k < 2^31 as three limbs.
WFromInt(k) == <<0, k \div Limb, k % Limb>>

WDouble[x \in WNat] ==
    LET c == 2 * x[3]
        b == 2 * x[2] + (c \div Limb)
    IN  <<2 * x[1] + (b \div Limb), b % Limb, c % Limb>>

\* x + 1
WInc[x \in WNat] ==
    IF x[3] + 1 < Limb THEN <<x[1], x[2], x[3] + 1>>
    ELSE IF x[2] + 1 < Limb THEN <<x[1], x[2] + 1, 0>>
    ELSE <<x[1] + 1, 0, 0>>

\* x < y
WLess[x \in WNat, y \in WNat] ==
    \/ x[1] < y[1]
    \/ x[1] = y[1] /\ x[2] < y[2]
    \/ x[1] = y[1] /\ x[2] = y[2] /\ x[3] < y[3]

\* x - y for x >= y
WSub[x \in WNat, y \in WNat] ==
    LET bc == IF x[3] < y[3] THEN 1 ELSE 0
        bb == IF x[2] < y[2] + bc THEN 1 ELSE 0
    IN  <<x[1] - y[1] - bb,
          x[2] + bb * Limb - y[2] - bc,
          x[3] + bc * Limb - y[3]>>

\* The number of bits of k.
RECURSIVE BitLenInt(_)
BitLenInt(k) == IF k = 0 THEN 0 ELSE 1 + BitLenInt(k \div 2)

WBitLen[x \in WNat] ==
    IF x[1] > 0 THEN 54 + BitLenInt(x[1])
    ELSE IF x[2] > 0 THEN 27 + BitLenInt(x[2])
    ELSE BitLenInt(x[3])

\* x * 2^s for 0 <= s < 27: each limb gives its top s bits to the next one.
WShlBits[x \in WNat, s \in Nat] ==
    LET cut == Pow2(27 - s)
        up == Pow2(s)
    IN  <<(x[1] % cut) * up + (x[2] \div cut),
          (x[2] % cut) * up + (x[3] \div cut),
          (x[3] % cut) * up>>

\* x * 2^s, the result below 2^81.
WShl[x \in WNat, s \in Nat] ==
    LET y == WShlBits[x, s % 27]
    IN  IF s < 27 THEN y
        ELSE IF s < 54 THEN <<y[2], y[3], 0>>
        ELSE <<y[3], 0, 0>>

\* l * k as <<carry, limb>> for a limb l and k < 2^15; l is split at bit 14
\* so that no product leaves 31 bits.
LimbMul[l \in Nat, k \in Nat] ==
    LET h == (l \div Pow2(14)) * k
        raw == (h % Pow2(13)) * Pow2(14) + (l % Pow2(14)) * k
    IN  <<(h \div Pow2(13)) + (raw \div Limb), raw % Limb>>

\* x * k for x < 2^54 and k < 2^15.
WMulSmall[x \in WNat, k \in Nat] ==
    LET c == LimbMul[x[3], k]
        b == LimbMul[x[2], k]
        mid == b[2] + c[1]
    IN  <<b[1] + (mid \div Limb), mid % Limb, c[2]>>

\* Long division by q, the state <<quotient, remainder>>: one more bit of
\* the quotient.
WDivStep[st \in WNat \X WNat, q \in WNat] ==
    LET r == WDouble[st[2]]
        d == WDouble[st[1]]
    IN  IF WLess[r, q] THEN <<d, r>> ELSE <<WInc[d], WSub[r, q]>>

\* j more bits of the quotient.
WDivLoop[st \in WNat \X WNat, q \in WNat, j \in Nat] ==
    IF j = 0 THEN st ELSE WDivLoop[WDivStep[st, q], q, j - 1]

\* The first bit: p and q have the same number of bits.
WDivStart[p \in WNat, q \in WNat] ==
    IF WLess[p, q] THEN <<<<0, 0, 0>>, p>> ELSE <<<<0, 0, 1>>, WSub[p, q]>>

\* A positive f64 is <<m, e>>: the value m * 2^e with 2^52 <= m < 2^53;
\* 0.0 is <<<<0, 0, 0>>, 0>>. Exponents stay far from the subnormal range.
F64 == WNat \X Int

\* Round to nearest, ties to even: st is <<quotient, remainder>> of a
\* division by q with a quotient of 53 bits, e its exponent.
F64Nearest[st \in WNat \X WNat, q \in WNat, e \in Int] ==
    LET twice == WDouble[st[2]]
        up == WLess[q, twice] \/ (twice = q /\ st[1][3] % 2 = 1)
        m == IF up THEN WInc[st[1]] ELSE st[1]
    IN  IF m = <<0, Pow2(26), 0>> THEN <<<<0, Pow2(25), 0>>, e + 1>>
        ELSE <<m, e>>

\* The f64 nearest to p / q * 2^x for p, q > 0 below 2^80: what one
\* correctly rounded IEEE 754 operation with that exact result returns. p
\* and q are brought to the same number of bits; the quotient then starts
\* with 1 or 0 and gets 52 or 53 more bits.
F64Round[p \in WNat, q \in WNat, x \in Int] ==
    LET bp == WBitLen[p]
        bq == WBitLen[q]
        p1 == IF bp < bq THEN WShl[p, bq - bp] ELSE p
        q1 == IF bq < bp THEN WShl[q, bp - bq] ELSE q
        j == IF WLess[p1, q1] THEN 53 ELSE 52
    IN  F64Nearest[WDivLoop[WDivStart[p1, q1], q1, j], q1, bp - bq - j + x]

\* f64 * (usize as f64), the integer below 2^15
F64MulInt[f \in F64, k \in Nat] == F64Round[WMulSmall[f[1], k], <<0, 0, 1>>, f[2]]

\* (usize as f64) / f64
F64IntDiv[k \in Nat, f \in F64] == F64Round[WFromInt(k), f[1], -f[2]]

\* f64::ceil followed by `as u64`, for values below 2^30.
F64Ceil[f \in F64] ==
    LET s == -f[2]
        b == f[1][2]
        c == f[1][3]
    IN  IF s >= 53 THEN 1
        ELSE IF s >= 27
        THEN (b \div Pow2(s - 27))
             + (IF b % Pow2(s - 27) # 0 \/ c # 0 THEN 1 ELSE 0)
        ELSE b * Pow2(27 - s) + (c \div Pow2(s))
             + (IF c % Pow2(s) # 0 THEN 1 ELSE 0)

\* x + y
WAdd[x \in WNat, y \in WNat] ==
    LET c == x[3] + y[3]
        b == x[2] + y[2] + (c \div Limb)
    IN  <<x[1] + y[1] + (b \div Limb), b % Limb, c % Limb>>

F64Zero == <<<<0, 0, 0>>, 0>>
F64One == <<<<0, Pow2(25), 0>>, -52>>

\* usize as f64 / usize as f64
F64DivInts[a \in Nat, b \in Nat] == F64Round[WFromInt(a), WFromInt(b), 0]

\* f64 + f64 for operands that are 0.0 or within a factor 2^26 of each
\* other: the exact sum has at most 80 bits.
F64Add[x \in F64, y \in F64] ==
    IF x = F64Zero THEN y
    ELSE IF y = F64Zero THEN x
    ELSE LET e == IF x[2] < y[2] THEN x[2] ELSE y[2]
         IN  F64Round[WAdd[WShl[x[1], x[2] - e], WShl[y[1], y[2] - e]],
                      <<0, 0, 1>>, e]

\* f64 * f64 where the significand of g has at most 15 significant bits
\* (1.0, 0.5, 0.75, ...): g is k * 2^(e + 38) with k below 2^15.
F64Mul[f \in F64, g \in F64] ==
    IF f = F64Zero \/ g = F64Zero THEN F64Zero
    ELSE F64Round[WMulSmall[f[1], g[1][2] \div Pow2(11)], <<0, 0, 1>>, f[2] + g[2] + 38]

\* x <= y
F64Le[x \in F64, y \in F64] ==
    \/ x = F64Zero
    \/ /\ y # F64Zero
       /\ \/ x[2] < y[2]
          \/ x[2] = y[2] /\ ~WLess[y[1], x[1]]

\* --------------------------------------------------------------- lpfse.rs

\* std::f64::consts::PI, as the rational 355/113.
PI == <<355, 113>>

\* 2f64.powf(r) for an integer r of either sign.
Pow2R(r) == IF r >= 0 THEN <<Pow2(r), 1>> ELSE <<1, Pow2(-r)>>

\* x.log2().ceil() for a rational x > 0 given as its square x2 = x * x: the
\* least integer r with 4^r >= x2.
RECURSIVE CeilLog2Sqrt(_, _)
CeilLog2Sqrt(x2, r) ==
    IF RLe(x2, RMul(Pow2R(r), Pow2R(r)))
    THEN (IF RLe(x2, RMul(Pow2R(r - 1), Pow2R(r - 1))) THEN CeilLog2Sqrt(x2, r - 1) ELSE r)
    ELSE CeilLog2Sqrt(x2, r + 1)

\* x.log2().ceil() for a rational x > 0: the least integer r with 2^r >= x.
RECURSIVE CeilLog2(_, _)
CeilLog2(x, r) ==
    IF RLe(x, Pow2R(r))
    THEN (IF RLe(x, Pow2R(r - 1)) THEN CeilLog2(x, r - 1) ELSE r)
    ELSE CeilLog2(x, r + 1)

\* util::compute_cdf
compute_cdf(index, histogram, num) ==
    IF index >= Len(histogram) THEN <<0, 1>>
    ELSE Rat(SumSeq(Counts(SubSeq(histogram, 1, index))), num)

\* EncoderIHBE::new / EncoderBHE::new
EncoderIHBE_new == [kind |-> "IHBE", local_table |-> <<>>,
                    length |-> 0, width |-> <<<<0, 0, 0>>, 0>>, message_num |-> 0]
EncoderBHE_new == [kind |-> "BHE", local_table |-> <<>>,
                   length |-> 0, width |-> <<<<0, 0, 0>>, 0>>, message_num |-> 0]

\* The `for i in 0..histogram.len()` loop of EncoderIHBE::adjust_distribution
\* from index i on; st carries histogram, is_big_enough and scale_factor.
RECURSIVE adjust_loop(_, _, _, _)
adjust_loop(st, message_num, r, i) ==
    IF ~(i < Len(st.histogram)) THEN st.histogram
    ELSE
      LET pow2_r == RDiv(RInt(1), Pow2R(r))
          pow2_rplus1 == RDiv(RInt(1), Pow2R(r + 1))
          cnt == st.histogram[i + 1][2]
          cur_frequency == Rat(cnt, message_num)
          set(c) == [st.histogram EXCEPT ![i + 1][2] = c]
          n == RInt(message_num)
      IN
      IF i = 1
      THEN IF RLt(cur_frequency, pow2_rplus1)
           THEN adjust_loop(
                  [st EXCEPT !.histogram = set(AsUsize(RCeil(RMul(pow2_rplus1, n)))),
                             !.scale_factor = RDiv(RSub(RInt(1), cur_frequency),
                                                   RSub(RInt(1), pow2_rplus1))],
                  message_num, r, i + 1)
           ELSE adjust_loop(st, message_num, r, i + 1)
      ELSE IF st.is_big_enough
      THEN adjust_loop(
             [st EXCEPT !.histogram =
                          set(AsUsize(RCeil(RDiv(RInt(cnt), st.scale_factor))))],
             message_num, r, i + 1)
      ELSE IF RLe(RMul(pow2_r, st.scale_factor), cur_frequency)
      THEN adjust_loop(
             [st EXCEPT !.is_big_enough = TRUE,
                        !.histogram =
                          set(AsUsize(RCeil(RDiv(RInt(cnt), st.scale_factor))))],
             message_num, r, i + 1)
      ELSE
        LET cdf_prev == compute_cdf(i, st.histogram, message_num)
            h1 == set(AsUsize(RCeil(RMul(RInt(cnt), pow2_r))))
            cdf_cur == compute_cdf(i, h1, message_num)
        IN  adjust_loop(
              [st EXCEPT !.histogram = h1,
                         !.scale_factor = RDiv(RSub(RInt(1), cdf_prev),
                                               RSub(RInt(1), cdf_cur))],
              message_num, r, i + 1)

\* EncoderIHBE::adjust_distribution
adjust_distribution(histogram, message_num, r) ==
    adjust_loop([histogram |-> histogram, is_big_enough |-> FALSE,
                 scale_factor |-> <<1, 1>>], message_num, r, 0)

\* EncoderIHBE::initialize: the encoders it can leave (one per order of the
\* histogram's ties).
ihbe_initialize(self, messages, advantage) ==
    IF messages = <<>> THEN {self}
    ELSE
      {LET n == Len(messages)
           least == histogram_vec0[Len(histogram_vec0)][2]
           \* log_inner^2 = n^3 / (8 * PI * advantage^2 * least^2)
           log_inner2 == RDiv(RInt(n * n * n),
                              RMul(RMul(RInt(8 * least * least), PI),
                                   RMul(advantage, advantage)))
           r == CeilLog2Sqrt(log_inner2, 0)
           pow2_r == Pow2R(r)
           histogram_vec == adjust_distribution(histogram_vec0, n, r)
           cumulative_frequency ==
               [i \in 0..Len(histogram_vec) |->
                   Rat(SumSeq(Counts(SubSeq(histogram_vec, 1, i))), n)]
           lhs(i) == AsUsize(RRound(RMul(pow2_r, cumulative_frequency[i - 1])))
           rhs(i) == AsUsize(RRound(RMul(pow2_r, cumulative_frequency[i])))
           pos(m) == CHOOSE i \in DOMAIN histogram_vec : histogram_vec[i][1] = m
       IN  [self EXCEPT !.local_table =
              [m \in Range(messages) |->
                  <<histogram_vec[pos(m)][2], lhs(pos(m)), rhs(pos(m))>>]] :
       histogram_vec0 \in build_histogram_vec(build_histogram(messages))}

\* The token bytes(m) | le(tag) both encoders build.
lp_token(message, homophone) ==
    message \o <<SEP>> \o to_le_bytes(homophone, SizeOfU64)

\* EncoderIHBE::encode: the outcomes of one call, <<result, encoder>>.
\* Uniform::new(start, end) panics on an empty range.
ihbe_encode(self, message) ==
    IF message \notin DOMAIN self.local_table THEN {<<None, self>>}
    ELSE LET start == self.local_table[message][2]
             end == self.local_table[message][3]
         IN  IF start >= end THEN {<<[tag |-> "Panic"], self>>}
             ELSE {<<Some(lp_token(message, h)), self>> : h \in start..(end - 1)}

\* An enumeration that skips the first tag of the interval.
ihbe_encode_all_short(self, message) ==
    IF message \notin DOMAIN self.local_table THEN None
    ELSE LET start == self.local_table[message][2]
             end == self.local_table[message][3]
         IN  Some([i \in 1..(IF end > start + 1 THEN end - start - 1 ELSE 0) |->
                      lp_token(message, start + i)])

\* EncoderIHBE::encode_all
ihbe_encode_all(self, message) ==
    IF message \notin DOMAIN self.local_table THEN None
    ELSE LET start == self.local_table[message][2]
             end == self.local_table[message][3]
         IN  Some([i \in 1..(IF end > start THEN end - start ELSE 0) |->
                      lp_token(message, start + i - 1)])

\* EncoderIHBE::decode; the slice panics when the token is shorter than the
\* suffix.
ihbe_decode(message) ==
    IF Len(message) < SizeOfUsize + 1 THEN [tag |-> "Panic"]
    ELSE Some(SubSeq(message, 1, Len(message) - SizeOfUsize - 1))


\* EncoderBHE::initialize. log2 is the `as usize` cast of the ceiling, which
\* saturates a negative value to 0; checked_sub(1) then fails and the
\* function returns with only message_num written. width is one f64
\* division: message_num * 2^length is exact.
bhe_initialize(self, messages, advantage) ==
    IF messages = <<>> THEN self
    ELSE
      LET histogram == build_histogram(messages)
          most_frequent == CHOOSE v \in Range([i \in DOMAIN messages |-> histogram[messages[i]]]) :
                              \A m \in DOMAIN histogram : histogram[m] <= v
          n == Len(messages)
          two_a == RMul(RInt(2), advantage)
          log2 == AsUsize(CeilLog2(RDiv(RInt(n), RMul(RMul(two_a, two_a), PI)), 0))
          self1 == [self EXCEPT !.message_num = n]
      IN  IF log2 < 1 THEN self1
          ELSE LET length == log2 - 1
               IN  [self1 EXCEPT
                      !.length = length,
                      !.width = F64Round[WFromInt(most_frequent), WFromInt(n), -length],
                      !.local_table = [m \in DOMAIN histogram |-> <<histogram[m], <<>>>>]]

\* The frequency band of a message, its number of homophones:
\* (frequency as f64 / (width * message_num as f64)).ceil() as u64, each
\* operation rounded as f64 rounds it.
bhe_band(self, frequency) ==
    F64Ceil[F64IntDiv[frequency, F64MulInt[self.width, self.message_num]]]

\* EncoderBHE::encode: the outcomes of one call, <<result, encoder>>; the
\* sampled tag is pushed to the message's set.
bhe_encode(self, message) ==
    IF message \notin DOMAIN self.local_table THEN {<<None, self>>}
    ELSE LET band == bhe_band(self, self.local_table[message][1])
         IN  IF band <= 0 THEN {<<[tag |-> "Panic"], self>>}
             ELSE {<<Some(lp_token(message, h)),
                     [self EXCEPT !.local_table[message][2] = Append(@, h)]>> :
                     h \in 0..(band - 1)}

\* EncoderBHE::encode_all
bhe_encode_all(self, message) ==
    IF message \notin DOMAIN self.local_table THEN None
    ELSE LET band == bhe_band(self, self.local_table[message][1])
         IN  Some([i \in 1..band |-> lp_token(message, i - 1)])

\* EncoderBHE::decode
bhe_decode(message) ==
    IF Len(message) < SizeOfU64 + 1 THEN [tag |-> "Panic"]
    ELSE Some(SubSeq(message, 1, Len(message) - SizeOfU64 - 1))

\* Dispatch on Box<dyn HomophoneEncoder<T>>.
encoder_initialize(enc, messages, advantage) ==
    IF enc.kind = "IHBE" THEN ihbe_initialize(enc, messages, advantage)
    ELSE {bhe_initialize(enc, messages, advantage)}
encoder_encode(enc, message) ==
    IF enc.kind = "IHBE" THEN ihbe_encode(enc, message) ELSE bhe_encode(enc, message)
encoder_encode_all(enc, message) ==
    IF enc.kind = "IHBE" THEN ihbe_encode_all(enc, message) ELSE bhe_encode_all(enc, message)
encoder_decode(enc, message) ==
    IF enc.kind = "IHBE" THEN ihbe_decode(message) ELSE bhe_decode(message)

\* ContextLPFSE::new
ContextLPFSE_new(advantage, encoder) ==
    [advantage |-> advantage, key |-> NoKey, encoder |-> encoder]

\* ContextLPFSE::key_generate
lpfse_key_generate(self, fresh_key) == [self EXCEPT !.key = fresh_key]

\* ContextLPFSE::initialize
lpfse_initialize(self, messages) ==
    {[self EXCEPT !.encoder = e] :
        e \in encoder_initialize(self.encoder, messages, self.advantage)}

\* ContextLPFSE::encrypt: the outcomes <<result, ctx>> of one call.
lpfse_encrypt(self, message) ==
    IF ~ValidKey(self.key) THEN {<<None, self>>}
    ELSE {LET homophone == o[1]
              self1 == [self EXCEPT !.encoder = o[2]]
          IN  IF homophone.tag = "Some"
              THEN <<Some(<<b64encode(Seal(self.key, ZeroNonce, homophone.val))>>), self1>>
              ELSE <<homophone, self1>> :
          o \in encoder_encode(self.encoder, message)}

\* ContextLPFSE::decrypt; an invalid key panics.
lpfse_decrypt(self, ciphertext) ==
    IF ~ValidKey(self.key) THEN [tag |-> "Panic"]
    ELSE LET plaintext == decode_and_open(self.key, ZeroNonce, ciphertext)
         IN  IF plaintext = None THEN None
             ELSE encoder_decode(self.encoder, plaintext.val)

\* The ciphertexts ContextLPFSE::search hands to search_impl.
lpfse_search_tokens(self, homophones) ==
    [i \in DOMAIN homophones |-> b64encode(Seal(self.key, ZeroNonce, homophones[i]))]

\* ContextLPFSE::search
lpfse_search(self, collection, message) ==
    LET homophones == encoder_encode_all(self.encoder, message)
    IN  IF homophones = None THEN None
        ELSE IF ~ValidKey(self.key) THEN [tag |-> "Panic"]
        ELSE Some(search_chunks(collection,
                                chunks(lpfse_search_tokens(self, homophones.val), ChunkSize),
                                [d \in Range(collection) |-> lpfse_decrypt(self, d)]))


\* --------------------------------------------------------------- native.rs

\* The nonces OsRng.fill_bytes can produce; 0 is the all-zero nonce.
Nonces == 0..NumNonces

\* ContextNative::new
ContextNative_new(rnd) == [key |-> NoKey, rnd |-> rnd, local_table |-> <<>>]

\* ContextNative::key_generate
native_key_generate(self, fresh_key) == [self EXCEPT !.key = fresh_key]

\* ContextNative::encrypt: the outcomes <<result, ctx>> of one call.
native_encrypt(self, message) ==
    IF ~ValidKey(self.key) THEN {<<None, self>>}
    ELSE IF self.rnd
    THEN {<<Some(<<b64encode(Seal(self.key, buf, message))>>),
            [self EXCEPT !.local_table = entry_push(@, message, buf)]>> :
            buf \in Nonces}
    ELSE {<<Some(<<b64encode(Seal(self.key, ZeroNonce, message))>>), self>>}

\* The nonce ContextNative::decrypt opens with.
native_decrypt_nonce(self, ciphertext) == ZeroNonce

\* ContextNative::decrypt
native_decrypt(self, ciphertext) ==
    IF ~ValidKey(self.key) THEN None
    ELSE decode_and_open(self.key, native_decrypt_nonce(self, ciphertext), ciphertext)

\* ContextNative::search; in RND mode the lookup of an unknown message
\* unwraps None.
native_search(self, collection, message) ==
    IF ~ValidKey(self.key) THEN None
    ELSE IF self.rnd
    THEN IF message \notin DOMAIN self.local_table THEN [tag |-> "Panic"]
         ELSE LET nonces == self.local_table[message]
                  ciphertexts == [i \in DOMAIN nonces |->
                                    b64encode(Seal(self.key, nonces[i], message))]
              IN  Some(search_chunks(collection, chunks(ciphertexts, ChunkSize),
                                     [d \in Range(collection) |-> native_decrypt(self, d)]))
    ELSE Some(search_chunks(collection,
                            chunks(<<b64encode(Seal(self.key, ZeroNonce, message))>>, ChunkSize),
                            [d \in Range(collection) |-> native_decrypt(self, d)]))


\* ---------------------------------------------------------- state machine

\* The scheme under test, the caller's position in its life cycle, the three
\* contexts, the caller's data set T, the number of splits the last partition
\* call made, the ciphertexts and plaintexts the caller collected, the
\* documents of the collection, and the last single call with its result.
VARIABLES scheme, pc, pfse, lpfse, native, T, splits, ciphertexts, plaintexts, db, out

vars == <<scheme, pc, pfse, lpfse, native, T, splits, ciphertexts, plaintexts, db, out>>

Schemes == {"pfse", "lpfse", "native"}

\* The data sets of the LPFSE and baseline callers.
LPInputs == UNION {SortedSeqs(l, Msgs) : l \in 0..MaxLenLP}

\* The advantage bounds an LPFSE context is built with.
LPAdvantages == {<<1, 4>>, <<3, 4>>}

NoCall == [op |-> "none", arg |-> <<>>, res |-> None]

Init ==
    /\ scheme \in Schemes
    /\ pc = "fresh"
    /\ pfse = ContextPFSE_default
    /\ lpfse \in IF scheme = "lpfse"
                 THEN {ContextLPFSE_new(a, e) :
                          a \in LPAdvantages, e \in {EncoderIHBE_new, EncoderBHE_new}}
                 ELSE {ContextLPFSE_new(<<1, 4>>, EncoderIHBE_new)}
    /\ native \in IF scheme = "native"
                  THEN {ContextNative_new(rnd) : rnd \in BOOLEAN}
                  ELSE {ContextNative_new(FALSE)}
    /\ T \in IF scheme = "pfse" THEN Inputs ELSE LPInputs
    /\ splits = 0
    /\ ciphertexts = <<>>
    /\ plaintexts = <<>>
    /\ db = <<>>
    /\ out = NoCall

\* ---- PFSE caller: key_generate, set_params, partition, transform, smooth,
\* ---- insert, then one search call, or one encrypt call followed by one
\* ---- decrypt call.

PfseKeyGenerate ==
    /\ scheme = "pfse" /\ pc = "fresh"
    /\ \E fresh_key \in Keys : pfse' = pfse_key_generate(pfse, fresh_key)
    /\ pc' = "keyed"
    /\ UNCHANGED <<scheme, lpfse, native, T, splits, ciphertexts, plaintexts, db, out>>

PfseSetParams ==
    /\ scheme = "pfse" /\ pc = "keyed"
    /\ \E l \in Lambdas, s \in Scales, a \in Advantages :
          pfse' = set_params(pfse, <<l, s, a>>)
    /\ pc' = "ready"
    /\ UNCHANGED <<scheme, lpfse, native, T, splits, ciphertexts, plaintexts, db, out>>

PfsePartition ==
    /\ scheme = "pfse" /\ pc = "ready"
    /\ \E func \in PartitionFuncs :
       \E o \in partition(pfse, T, func) :
          /\ pfse' = o.ctx
          /\ splits' = o.splits
          /\ pc' = IF o.panicked THEN "panicked" ELSE "partitioned"
    /\ UNCHANGED <<scheme, lpfse, native, T, ciphertexts, plaintexts, db, out>>

PfseTransform ==
    /\ scheme = "pfse" /\ pc = "partitioned"
    /\ pfse' = transform(pfse)
    /\ pc' = "transformed"
    /\ UNCHANGED <<scheme, lpfse, native, T, splits, ciphertexts, plaintexts, db, out>>

PfseSmooth ==
    /\ scheme = "pfse" /\ pc = "transformed"
    /\ ciphertexts' = smooth(pfse)
    /\ pc' = "smoothed"
    /\ UNCHANGED <<scheme, pfse, lpfse, native, T, splits, plaintexts, db, out>>

\* Connector::insert of the collected ciphertexts.
Insert ==
    /\ \/ scheme = "pfse" /\ pc = "smoothed"
       \/ scheme = "lpfse" /\ pc = "initialized" /\ Len(plaintexts) = Len(T)
       \/ scheme = "native" /\ pc = "keyed" /\ Len(plaintexts) = Len(T)
    /\ db' = db \o ciphertexts
    /\ pc' = "stored"
    /\ UNCHANGED <<scheme, pfse, lpfse, native, T, splits, ciphertexts, plaintexts, out>>

PfseEncrypt ==
    /\ scheme = "pfse" /\ pc = "stored"
    /\ \E message \in Msgs \cup {Unseen} :
          out' = [op |-> "encrypt", arg |-> message, res |-> pfse_encrypt(pfse, message)]
    /\ pc' = "encrypted"
    /\ UNCHANGED <<scheme, pfse, lpfse, native, T, splits, ciphertexts, plaintexts, db>>

\* Texts that no encrypt call of this instance returned: one sealed under
\* another key, one whose plaintext is shorter than the suffix, and one that
\* is no sealed box at all.
Malformed(key) ==
    {b64encode(Seal(k, ZeroNonce, pfse_token(<<97>>, 0, 0))) : k \in Keys \ {key}}
    \cup {b64encode(Seal(key, ZeroNonce, <<97>>)), RawBytes(Unseen)}

PfseDecrypt ==
    /\ scheme = "pfse" /\ pc = "encrypted"
    /\ \E ciphertext \in Range(from_decrypted(out.res)) \cup Malformed(pfse.key) :
          LET res == pfse_decrypt(pfse, ciphertext)
          IN  /\ out' = [op |-> "decrypt", arg |-> ciphertext, res |-> res]
              /\ pc' = IF res.tag = "Panic" THEN "panicked" ELSE "decrypted"
    /\ UNCHANGED <<scheme, pfse, lpfse, native, T, splits, ciphertexts, plaintexts, db>>

PfseSearch ==
    /\ scheme = "pfse" /\ pc = "stored"
    /\ \E message \in Msgs \cup {Unseen} :
          out' = [op |-> "search", arg |-> message, res |-> pfse_search(pfse, db, message)]
    /\ pc' = "searched"
    /\ UNCHANGED <<scheme, pfse, lpfse, native, T, splits, ciphertexts, plaintexts, db>>


\* ---- LPFSE caller, as the scheme tests drive it: key_generate, initialize,
\* ---- encrypt every message of T in order, decrypt every ciphertext in
\* ---- order, insert, then single search calls.

LpKeyGenerate ==
    /\ scheme = "lpfse" /\ pc = "fresh"
    /\ \E fresh_key \in Keys : lpfse' = lpfse_key_generate(lpfse, fresh_key)
    /\ pc' = "keyed"
    /\ UNCHANGED <<scheme, pfse, native, T, splits, ciphertexts, plaintexts, db, out>>

LpInitialize ==
    /\ scheme = "lpfse" /\ pc = "keyed"
    /\ lpfse' \in lpfse_initialize(lpfse, T)
    /\ pc' = "initialized"
    /\ UNCHANGED <<scheme, pfse, native, T, splits, ciphertexts, plaintexts, db, out>>

\* encrypt(message).unwrap().remove(0), pushed to the caller's vector.
LpEncrypt ==
    /\ scheme = "lpfse" /\ pc = "initialized" /\ Len(ciphertexts) < Len(T)
    /\ \E o \in lpfse_encrypt(lpfse, T[Len(ciphertexts) + 1]) :
          /\ lpfse' = o[2]
          /\ IF o[1].tag = "Some"
             THEN ciphertexts' = Append(ciphertexts, o[1].val[1]) /\ pc' = pc
             ELSE ciphertexts' = ciphertexts /\ pc' = "panicked"
    /\ UNCHANGED <<scheme, pfse, native, T, splits, plaintexts, db, out>>

\* decrypt(ciphertext).unwrap(), pushed to the caller's vector.
LpDecrypt ==
    /\ scheme = "lpfse" /\ pc = "initialized"
    /\ Len(ciphertexts) = Len(T) /\ Len(plaintexts) < Len(ciphertexts)
    /\ LET res == lpfse_decrypt(lpfse, ciphertexts[Len(plaintexts) + 1])
       IN  IF res.tag = "Some"
           THEN plaintexts' = Append(plaintexts, res.val) /\ pc' = pc
           ELSE plaintexts' = plaintexts /\ pc' = "panicked"
    /\ UNCHANGED <<scheme, pfse, lpfse, native, T, splits, ciphertexts, db, out>>

LpSearch ==
    /\ scheme = "lpfse" /\ pc = "stored"
    /\ \E message \in Msgs \cup {Unseen} :
          LET res == lpfse_search(lpfse, db, message)
          IN  /\ out' = [op |-> "search", arg |-> message, res |-> res]
              /\ pc' = IF res.tag = "Panic" THEN "panicked" ELSE pc
    /\ UNCHANGED <<scheme, pfse, lpfse, native, T, splits, ciphertexts, plaintexts, db>>

\* ---- Baseline (DTE / RND) caller: key_generate, encrypt every message of T
\* ---- in order, decrypt every ciphertext in order, insert, search.

NativeKeyGenerate ==
    /\ scheme = "native" /\ pc = "fresh"
    /\ \E fresh_key \in Keys : native' = native_key_generate(native, fresh_key)
    /\ pc' = "keyed"
    /\ UNCHANGED <<scheme, pfse, lpfse, T, splits, ciphertexts, plaintexts, db, out>>

NativeEncrypt ==
    /\ scheme = "native" /\ pc = "keyed" /\ Len(ciphertexts) < Len(T)
    /\ \E o \in native_encrypt(native, T[Len(ciphertexts) + 1]) :
          /\ native' = o[2]
          /\ IF o[1].tag = "Some"
             THEN ciphertexts' = Append(ciphertexts, o[1].val[1]) /\ pc' = pc
             ELSE ciphertexts' = ciphertexts /\ pc' = "panicked"
    /\ UNCHANGED <<scheme, pfse, lpfse, T, splits, plaintexts, db, out>>

\* decrypt(ciphertext), the Option kept as returned.
NativeDecrypt ==
    /\ scheme = "native" /\ pc = "keyed"
    /\ Len(ciphertexts) = Len(T) /\ Len(plaintexts) < Len(ciphertexts)
    /\ plaintexts' = Append(plaintexts,
                            native_decrypt(native, ciphertexts[Len(plaintexts) + 1]))
    /\ UNCHANGED <<scheme, pc, pfse, lpfse, native, T, splits, ciphertexts, db, out>>

NativeSearch ==
    /\ scheme = "native" /\ pc = "stored"
    /\ \E message \in Msgs \cup {Unseen} :
          LET res == native_search(native, db, message)
          IN  /\ out' = [op |-> "search", arg |-> message, res |-> res]
              /\ pc' = IF res.tag = "Panic" THEN "panicked" ELSE pc
    /\ UNCHANGED <<scheme, pfse, lpfse, native, T, splits, ciphertexts, plaintexts, db>>

Next ==
    \/ PfseKeyGenerate
    \/ PfseSetParams
    \/ PfsePartition
    \/ PfseTransform
    \/ PfseSmooth
    \/ Insert
    \/ PfseEncrypt
    \/ PfseDecrypt
    \/ PfseSearch
    \/ LpKeyGenerate
    \/ LpInitialize
    \/ LpEncrypt
    \/ LpDecrypt
    \/ LpSearch
    \/ NativeKeyGenerate
    \/ NativeEncrypt
    \/ NativeDecrypt
    \/ NativeSearch

Spec == Init /\ [][Next]_vars


\* ------------------------------------------------------------- properties

\* The PFSE instance has been keyed, given parameters, partitioned on T and
\* transformed.
PfseTransformed ==
    /\ scheme = "pfse"
    /\ pc \in {"transformed", "smoothed", "stored", "encrypted", "decrypted", "searched"}

\* C1: on a keyed, parameterised, partitioned and transformed PFSE instance,
\* encrypt(m) succeeds for every message m of T and decrypt returns exactly
\* the bytes of m for every ciphertext of encrypt(m); a decrypt call made on
\* such a ciphertext returned the bytes of the message it was made for.
C1_PfseRoundTrip ==
    PfseTransformed =>
        \A m \in Range(T) :
            LET c == pfse_encrypt(pfse, m)
            IN  /\ c.tag = "Some"
                /\ \A i \in DOMAIN c.val : pfse_decrypt(pfse, c.val[i]) = Some(m)
                /\ (out.op = "decrypt" /\ out.arg \in Range(c.val)) => out.res = Some(m)

\* A decrypt call has returned a training message that itself contains the
\* separator byte.
C1_Witness ==
    /\ PfseTransformed
    /\ pc = "decrypted"
    /\ <<97, 124>> \in Range(T)
    /\ out.arg \in Range(from_decrypted(pfse_encrypt(pfse, <<97, 124>>)))
    /\ out.res = Some(<<97, 124>>)

\* C2: for both LPFSE encoders, after key_generate and initialize on T the
\* caller that encrypts every message of T in order and decrypts every
\* resulting ciphertext never aborts and collects the plaintexts of T in order.
C2_LpfseRoundTrip ==
    scheme = "lpfse" =>
        /\ pc # "panicked"
        /\ Len(plaintexts) <= Len(T)
        /\ \A i \in DOMAIN plaintexts : plaintexts[i] = T[i]

\* C3: in RND mode every ciphertext returned by encrypt(m) is restored to the
\* bytes of m by decrypt on the same instance.
C3_RndRoundTrip ==
    (scheme = "native" /\ native.rnd) =>
        \A i \in DOMAIN plaintexts : plaintexts[i] = Some(T[i])

\* search(message) of the scheme under test on the current collection.
SearchOf(message) ==
    IF scheme = "pfse" THEN pfse_search(pfse, db, message)
    ELSE lpfse_search(lpfse, db, message)

\* The collection holds the ciphertexts the instance produced for T.
Stored ==
    /\ pc \in {"stored", "encrypted", "decrypted", "searched"}
    /\ db = ciphertexts

\* C4: for PFSE and LPFSE, when the store holds the ciphertexts produced for
\* all training messages (for PFSE the smooth() output, dummies included),
\* search(m) succeeds for every m of T and every element it returns equals m.
C4_SearchSound ==
    (scheme \in {"pfse", "lpfse"} /\ Stored) =>
        \A m \in Range(T) :
            LET r == SearchOf(m)
            IN  /\ r.tag = "Some"
                /\ \A i \in DOMAIN r.val : r.val[i] = m
                /\ (out.op = "search" /\ out.arg = m) => out.res = r

\* A PFSE search for a training message has returned hits while the store
\* also holds a dummy and the tokens of another message.
C4_Witness ==
    /\ scheme = "pfse" /\ pc = "searched"
    /\ out.arg \in Range(T)
    /\ Len(from_decrypted(out.res)) >= 1
    /\ \E d \in Range(db) : "raw" \in DOMAIN d
    /\ \E m \in Range(T) : m # out.arg

\* The LPFSE instance has been keyed and initialised on T.
LpInitialized ==
    /\ scheme = "lpfse"
    /\ pc \in {"initialized", "stored"}

\* C5: after initialize, every token encode(m) can return is an element of
\* encode_all(m), and every ciphertext encrypt emitted for a message of T is
\* among the filter terms search builds for that message.
C5_EncodeWithinEncodeAll ==
    LpInitialized =>
        /\ \A m \in Msgs \cup {Unseen} :
              \A o \in encoder_encode(lpfse.encoder, m) :
                  o[1].tag = "Some" =>
                      LET all == encoder_encode_all(lpfse.encoder, m)
                      IN  all.tag = "Some" /\ o[1].val \in Range(all.val)
        /\ \A i \in DOMAIN ciphertexts :
              LET all == encoder_encode_all(lpfse.encoder, T[i])
              IN  /\ all.tag = "Some"
                  /\ ciphertexts[i] \in Range(lpfse_search_tokens(lpfse, all.val))

\* encrypt has emitted a ciphertext whose homophone tag is the last one of
\* an interval of at least two tags.
C5_Witness ==
    /\ LpInitialized
    /\ lpfse.encoder.kind = "IHBE"
    /\ \E i \in DOMAIN ciphertexts :
          LET all == encoder_encode_all(lpfse.encoder, T[i])
          IN  /\ all.tag = "Some" /\ Len(all.val) >= 2
              /\ ciphertexts[i].b64.pt = all.val[Len(all.val)]


\* The number of occurrences of x in seq.
CountIn(seq, x) == Cardinality({i \in DOMAIN seq : seq[i] = x})

\* The ciphertext of the j-th homophone of `message` in partition `index`.
TokenOf(message, index, j) ==
    b64encode(Seal(pfse.key, ZeroNonce, pfse_token(message, index, j)))

\* A member that transform pushed as a dummy.
IsDummy(message) == message[1] = 256

\* `ciphertexts` is what smooth() returned on the transformed instance.
Smoothed ==
    /\ scheme = "pfse"
    /\ pc \in {"smoothed", "stored", "encrypted", "decrypted", "searched"}

\* C6: in the multiset smooth() returns, for every training message m and
\* every entry (i, set_size, repeat) of local_table[m], each of the set_size
\* tokens of the entry occurs exactly repeat times.
C6_SmoothRepeats ==
    Smoothed =>
        \A m \in Range(T) :
            /\ m \in DOMAIN pfse.local_table
            /\ \A e \in DOMAIN pfse.local_table[m] :
                  LET v == pfse.local_table[m][e]
                  IN  \A j \in 0..(v[2] - 1) :
                          CountIn(ciphertexts, TokenOf(m, v[1], j)) = v[3]

\* The distinct ciphertexts of the partition with 0-based index `index`: the
\* tokens of its real members and the bytes of its dummies.
CiphertextsOfPartition(index) ==
    UNION {UNION {{TokenOf(m, index, j) : j \in 0..(pfse.local_table[m][e][2] - 1)} :
                    e \in {e \in DOMAIN pfse.local_table[m] :
                              pfse.local_table[m][e][1] = index}} :
             m \in DOMAIN pfse.local_table}
    \cup {RawBytes(pfse.partitions[index + 1].inner[e][1]) :
            e \in {e \in DOMAIN pfse.partitions[index + 1].inner :
                      IsDummy(pfse.partitions[index + 1].inner[e][1])}}

\* C7: in the multiset smooth() returns, all distinct ciphertexts of one
\* partition, real tokens and dummies alike, occur the same number of times
\* within one.
C7_EqualMultiplicity ==
    Smoothed =>
        \A p \in DOMAIN pfse.partitions :
            \A x, y \in CiphertextsOfPartition(p - 1) :
                CountIn(ciphertexts, x) - CountIn(ciphertexts, y) <= 1

\* C8: after partition and transform on T every distinct message of T has at
\* least one local-table entry and every entry has set_size at least 1.
C8_LocalTableCovers ==
    PfseTransformed =>
        \A m \in Range(T) :
            /\ m \in DOMAIN pfse.local_table
            /\ Len(pfse.local_table[m]) >= 1
            /\ \A e \in DOMAIN pfse.local_table[m] : pfse.local_table[m][e][2] >= 1

\* transform has run on a sample one of whose messages was split over two
\* partitions, so that the message has two entries.
C8_Witness ==
    /\ scheme = "pfse" /\ pc = "transformed"
    /\ Cardinality(Range(T)) >= 2
    /\ \E m \in Range(T) : Len(pfse.local_table[m]) >= 2

\* The sum of the member counts of all partitions.
MemberCount == SumSeq([p \in DOMAIN pfse.partitions |->
                          SumSeq(Counts(pfse.partitions[p].inner))])

\* C9: after partition(T) every distinct message of T is a member of at least
\* one partition, and the member counts of all partitions add up to |T| up to
\* one occurrence per split.
C9_PartitionCovers ==
    (scheme = "pfse" /\ pc = "partitioned") =>
        /\ \A m \in Range(T) :
              \E p \in DOMAIN pfse.partitions :
              \E e \in DOMAIN pfse.partitions[p].inner :
                  pfse.partitions[p].inner[e][1] = m
        /\ Abs(MemberCount - Len(T)) <= splits

\* partition has split at least twice on a sample of several messages.
C9_Witness ==
    /\ scheme = "pfse" /\ pc = "partitioned"
    /\ splits >= 2
    /\ Cardinality(Range(T)) >= 2
    /\ Len(pfse.partitions) >= 3

\* C10: for every partition but the last, the sum of the members'
\* frequencies (kept count / n) differs from the budget
\* partition_func(p_partition, g) * p_scale by at most 1/n.
C10_PartitionBudget ==
    (scheme = "pfse" /\ pc = "partitioned") =>
        \A g \in 1..(Len(pfse.partitions) - 1) :
            LET value == RMul(call_partition_func(pfse.partition_func,
                                                  pfse.p_partition, g),
                              pfse.p_scale)
                freq == Rat(SumSeq(Counts(pfse.partitions[g].inner)), pfse.message_num)
                d == RSub(freq, value)
            IN  RLe(<<Abs(d[1]), d[2]>>, Rat(1, pfse.message_num))


\* The positions of the partitions `message` is a member of.
PartitionsOf(message) ==
    {p \in DOMAIN pfse.partitions :
        \E e \in DOMAIN pfse.partitions[p].inner :
            pfse.partitions[p].inner[e][1] = message}

\* C11: after partition each message is a member of at most two partitions,
\* and when it is a member of two they have consecutive indices.
C11_SplitLocality ==
    (scheme = "pfse" /\ pc = "partitioned") =>
        \A m \in Range(T) :
            /\ Cardinality(PartitionsOf(m)) <= 2
            /\ \A p, q \in PartitionsOf(m) : Abs(p - q) <= 1


\* ------------------------------------------- EncoderIHBE::initialize alone

\* Longest training sample handed to EncoderIHBE::initialize on its own.
MaxLenIhbe == 6

IhbeInputs == UNION {SortedSeqs(l, Msgs) : l \in 1..MaxLenIhbe}

\* A context around a new IHBE encoder, and a non-empty training sample.
IhbeInit ==
    /\ scheme = "lpfse"
    /\ pc = "fresh"
    /\ pfse = ContextPFSE_default
    /\ lpfse \in {ContextLPFSE_new(a, EncoderIHBE_new) : a \in LPAdvantages}
    /\ native = ContextNative_new(FALSE)
    /\ T \in IhbeInputs
    /\ splits = 0
    /\ ciphertexts = <<>>
    /\ plaintexts = <<>>
    /\ db = <<>>
    /\ out = NoCall

\* ContextLPFSE::initialize on the new context.
IhbeInitialize ==
    /\ pc = "fresh"
    /\ lpfse' \in lpfse_initialize(lpfse, T)
    /\ pc' = "initialized"
    /\ UNCHANGED <<scheme, pfse, native, T, splits, ciphertexts, plaintexts, db, out>>

\* One EncoderIHBE::encode call for a training message.
IhbeEncode ==
    /\ pc = "initialized"
    /\ \E message \in Range(T) :
       \E o \in ihbe_encode(lpfse.encoder, message) :
          /\ out' = [op |-> "encode", arg |-> message, res |-> o[1]]
          /\ lpfse' = [lpfse EXCEPT !.encoder = o[2]]
          /\ pc' = IF o[1].tag = "Panic" THEN "panicked" ELSE "encoded"
    /\ UNCHANGED <<scheme, pfse, native, T, splits, ciphertexts, plaintexts, db>>

IhbeNext ==
    \/ IhbeInitialize
    \/ IhbeEncode

SpecIhbe == IhbeInit /\ [][IhbeNext]_vars

\* The exponent r initialize computes for sample `messages`.
ihbe_r(messages, advantage) ==
    LET n == Len(messages)
        histogram == build_histogram(messages)
        least == CHOOSE c \in {histogram[m] : m \in DOMAIN histogram} :
                    \A m \in DOMAIN histogram : c <= histogram[m]
    IN  CeilLog2Sqrt(RDiv(RInt(n * n * n),
                          RMul(RMul(RInt(8 * least * least), PI),
                               RMul(advantage, advantage))), 0)

\* The tags of [0, 2^r): 0 .. 2^r - 1, and tag 0 alone when 2^r < 1.
TagsBelowPow2(r) == 0..((IF r >= 0 THEN Pow2(r) ELSE 1) - 1)

\* The tags of the interval stored for `message`.
IntervalOf(message) ==
    lpfse.encoder.local_table[message][2]..(lpfse.encoder.local_table[message][3] - 1)

\* C12: after EncoderIHBE::initialize on a non-empty sample the stored
\* intervals are pairwise disjoint and their union is exactly [0, 2^r).
C12_IntervalsPartition ==
    (pc \in {"initialized", "encoded", "panicked"}) =>
        /\ \A m1, m2 \in Range(T) :
              m1 # m2 => IntervalOf(m1) \cap IntervalOf(m2) = {}
        /\ UNION {IntervalOf(m) : m \in Range(T)}
              = TagsBelowPow2(ihbe_r(T, lpfse.advantage))


\* C13: after EncoderIHBE::initialize on a non-empty sample every training
\* message has a non-empty interval (start < end), and encode never aborts
\* on an empty range.
C13_IntervalsNonEmpty ==
    (pc \in {"initialized", "encoded", "panicked"}) =>
        /\ \A m \in Range(T) :
              lpfse.encoder.local_table[m][2] < lpfse.encoder.local_table[m][3]
        /\ pc # "panicked"


\* ----------------------------------------------------- search_impl alone

\* Token lists of up to MaxChunks full requests are searched for ...
MaxChunks == 2

\* ... with lengths at most ChunkSlack away from a multiple of the chunk size.
ChunkSlack == 20

TokenCounts ==
    UNION {{t \in (k * ChunkSize - ChunkSlack)..(k * ChunkSize + ChunkSlack) : t >= 0} :
             k \in 0..MaxChunks}

\* search_impl is entered with a list of distinct tokens (numbered 1..t) on
\* an empty collection; out.res collects the `$or` filters sent so far.
ChunkInit ==
    /\ scheme = "pfse"
    /\ pc = "searching"
    /\ pfse = ContextPFSE_default
    /\ lpfse = ContextLPFSE_new(<<1, 4>>, EncoderIHBE_new)
    /\ native = ContextNative_new(FALSE)
    /\ T = <<>>
    /\ splits = 0
    /\ ciphertexts \in {[i \in 1..t |-> i] : t \in TokenCounts}
    /\ plaintexts = <<>>
    /\ db = <<>>
    /\ out = [op |-> "search_impl", arg |-> <<>>, res |-> <<>>]

\* One iteration of `for encrypted_message in query_result.chunks(4096)`.
SearchImplRequest ==
    /\ pc = "searching"
    /\ Len(out.res) < Len(chunks(ciphertexts, ChunkSize))
    /\ out' = [out EXCEPT !.res = Append(@, chunks(ciphertexts, ChunkSize)[Len(@) + 1])]
    /\ UNCHANGED <<scheme, pc, pfse, lpfse, native, T, splits, ciphertexts, plaintexts, db>>

\* The loop is over and search_impl returns.
SearchImplReturn ==
    /\ pc = "searching"
    /\ Len(out.res) = Len(chunks(ciphertexts, ChunkSize))
    /\ pc' = "searched"
    /\ UNCHANGED <<scheme, pfse, lpfse, native, T, splits, ciphertexts, plaintexts, db, out>>

ChunkNext ==
    \/ SearchImplRequest
    \/ SearchImplReturn

SpecChunk == ChunkInit /\ [][ChunkNext]_vars

\* The requests one after another.
RECURSIVE Flatten(_)
Flatten(requests) ==
    IF requests = <<>> THEN <<>> ELSE Head(requests) \o Flatten(Tail(requests))

UnknownMessages ==
    (Msgs \cup {Unseen})
        \ DOMAIN (IF scheme = "pfse" THEN pfse.local_table ELSE lpfse.encoder.local_table)

\* C15: on an initialized PFSE or LPFSE instance encrypt(m) and search(m) for
\* a message m missing from the local table return None without aborting and
\* without a storage request, and encrypt leaves the instance (local table,
\* BHE tag lists, partitions, key) as it was.
C15_UnknownMessage ==
    /\ PfseTransformed =>
          \A m \in UnknownMessages :
              /\ pfse_encrypt(pfse, m) = None
              /\ pfse_search(pfse, db, m) = None
    /\ LpInitialized =>
          \A m \in UnknownMessages :
              /\ lpfse_encrypt(lpfse, m) = {<<None, lpfse>>}
              /\ lpfse_search(lpfse, db, m) = None
    /\ (scheme \in {"pfse", "lpfse"} /\ out.op \in {"encrypt", "search"}
          /\ out.arg \in UnknownMessages) => out.res = None

\* A search for a message that was never trained on has returned on a
\* non-empty collection.
C15_Witness ==
    /\ scheme = "pfse" /\ pc = "searched"
    /\ out.arg = Unseen /\ out.arg \in UnknownMessages
    /\ out.res = None
    /\ db # <<>>


\* ------------------------------------------- calls in any order (no driver)

\* Longest sample of a caller that follows no order.
MaxLenFree == 2

\* Most ciphertexts such a caller collects from LPFSE or baseline encrypt
\* (each such call may grow the instance's table).
MaxFreeCalls == 1

FreeInputs == UNION {SortedSeqs(l, Msgs) : l \in 0..MaxLenFree}

\* The vectors handed to set_params: two of length 3 and three of other
\* lengths.
ParamVectors ==
    {<<<<1, 1>>, <<1, 1>>, <<1, 2>>>>, <<<<1, 4>>, <<1, 1>>, <<1, 8>>>>,
     <<>>, <<<<1, 2>>, <<2, 1>>>>, <<<<1, 2>>, <<2, 1>>, <<1, 4>>, <<1, 1>>>>}

\* A new instance of any scheme, and a caller that may call anything.
FreeInit ==
    /\ scheme \in Schemes
    /\ pc = "free"
    /\ pfse = ContextPFSE_default
    /\ lpfse \in IF scheme = "lpfse"
                 THEN {ContextLPFSE_new(a, e) :
                          a \in LPAdvantages, e \in {EncoderIHBE_new, EncoderBHE_new}}
                 ELSE {ContextLPFSE_new(<<1, 4>>, EncoderIHBE_new)}
    /\ native \in IF scheme = "native"
                  THEN {ContextNative_new(rnd) : rnd \in BOOLEAN}
                  ELSE {ContextNative_new(FALSE)}
    /\ T \in FreeInputs
    /\ splits = 0
    /\ ciphertexts = <<>>
    /\ plaintexts = <<>>
    /\ db = <<>>
    /\ out = NoCall

\* key_generate of the scheme under test, at any time.
FreeKeyGenerate ==
    /\ pc = "free"
    /\ \E fresh_key \in Keys :
          /\ pfse' = IF scheme = "pfse" THEN pfse_key_generate(pfse, fresh_key) ELSE pfse
          /\ lpfse' = IF scheme = "lpfse" THEN lpfse_key_generate(lpfse, fresh_key) ELSE lpfse
          /\ native' = IF scheme = "native" THEN native_key_generate(native, fresh_key)
                       ELSE native
    /\ UNCHANGED <<scheme, pc, T, splits, ciphertexts, plaintexts, db, out>>

FreeSetParams ==
    /\ scheme = "pfse" /\ pc = "free"
    /\ \E params \in ParamVectors :
          /\ pfse' = set_params(pfse, params)
          /\ out' = [op |-> "set_params", arg |-> params, res |-> Some(<<>>)]
    /\ UNCHANGED <<scheme, pc, lpfse, native, T, splits, ciphertexts, plaintexts, db>>

\* transform on partitions while p_advantage is 0 (an earlier transform on an
\* instance without partitions multiplied it by the baseline 0): n_i is
\* (n * f_i / 0.0).ceil() as usize = usize::MAX, and the dummy loop pushes
\* members until the process runs out of memory and aborts.
transform_exhausts(self) ==
    self.partitions # <<>> /\ self.p_advantage[1] = 0

\* partition(T, func); one call per instance keeps the model finite.
FreePartition ==
    /\ scheme = "pfse" /\ pc = "free" /\ pfse.partitions = <<>>
    /\ \E func \in PartitionFuncs :
       \E o \in partition(pfse, T, func) :
          /\ pfse' = o.ctx
          /\ splits' = o.splits
          /\ pc' = IF o.panicked THEN "panicked" ELSE pc
          /\ out' = [op |-> "partition", arg |-> T,
                     res |-> IF o.panicked THEN [tag |-> "Panic"] ELSE Some(<<>>)]
    /\ UNCHANGED <<scheme, lpfse, native, T, ciphertexts, plaintexts, db>>

\* transform(); it is called while the local table is empty, which keeps
\* the model finite.
FreeTransform ==
    /\ scheme = "pfse" /\ pc = "free" /\ pfse.local_table = <<>>
    /\ IF transform_exhausts(pfse)
       THEN /\ pfse' = pfse
            /\ out' = [op |-> "transform", arg |-> <<>>, res |-> [tag |-> "Panic"]]
            /\ pc' = "panicked"
       ELSE /\ pfse' = transform(pfse)
            /\ out' = [op |-> "transform", arg |-> <<>>, res |-> Some(<<>>)]
            /\ pc' = pc
    /\ UNCHANGED <<scheme, lpfse, native, T, splits, ciphertexts, plaintexts, db>>

FreeSmooth ==
    /\ scheme = "pfse" /\ pc = "free"
    /\ ciphertexts' = smooth(pfse)
    /\ out' = [op |-> "smooth", arg |-> <<>>, res |-> Some(<<>>)]
    /\ UNCHANGED <<scheme, pc, pfse, lpfse, native, T, splits, plaintexts, db>>

\* initialize(T) of an LPFSE instance, at any time.
FreeInitialize ==
    /\ scheme = "lpfse" /\ pc = "free"
    /\ lpfse' \in lpfse_initialize(lpfse, T)
    /\ out' = [op |-> "initialize", arg |-> T, res |-> Some(<<>>)]
    /\ UNCHANGED <<scheme, pc, pfse, native, T, splits, ciphertexts, plaintexts, db>>

\* The outcomes <<result, pfse, lpfse, native>> of encrypt(message).
FreeEncryptOutcomes(message) ==
    IF scheme = "pfse" THEN {<<pfse_encrypt(pfse, message), pfse, lpfse, native>>}
    ELSE IF scheme = "lpfse"
    THEN {<<o[1], pfse, o[2], native>> : o \in lpfse_encrypt(lpfse, message)}
    ELSE {<<o[1], pfse, lpfse, o[2]>> : o \in native_encrypt(native, message)}

\* encrypt(message); the LPFSE and baseline callers keep what they get.
FreeEncrypt ==
    /\ pc = "free"
    /\ scheme = "pfse" \/ Len(ciphertexts) < MaxFreeCalls
    /\ \E message \in Msgs \cup {Unseen} :
       \E o \in FreeEncryptOutcomes(message) :
          /\ out' = [op |-> "encrypt", arg |-> message, res |-> o[1]]
          /\ pfse' = o[2] /\ lpfse' = o[3] /\ native' = o[4]
          /\ ciphertexts' = IF scheme # "pfse" /\ o[1].tag = "Some"
                            THEN ciphertexts \o o[1].val ELSE ciphertexts
          /\ pc' = IF o[1].tag = "Panic" THEN "panicked" ELSE pc
    /\ UNCHANGED <<scheme, T, splits, plaintexts, db>>

\* The key of the scheme under test.
KeyOf == IF scheme = "pfse" THEN pfse.key
         ELSE IF scheme = "lpfse" THEN lpfse.key ELSE native.key

\* decrypt(ciphertext) of the scheme under test.
DecryptOf(ciphertext) ==
    IF scheme = "pfse" THEN pfse_decrypt(pfse, ciphertext)
    ELSE IF scheme = "lpfse" THEN lpfse_decrypt(lpfse, ciphertext)
    ELSE native_decrypt(native, ciphertext)

\* The texts handed to decrypt: what encrypt or smooth returned, and the
\* malformed ones.
DecryptInputs ==
    Range(ciphertexts) \cup Malformed(KeyOf)
        \cup (IF out.op = "encrypt" THEN Range(from_decrypted(out.res)) ELSE {})

FreeDecrypt ==
    /\ pc = "free"
    /\ \E ciphertext \in DecryptInputs :
          LET res == DecryptOf(ciphertext)
          IN  /\ out' = [op |-> "decrypt", arg |-> ciphertext, res |-> res]
              /\ pc' = IF res.tag = "Panic" THEN "panicked" ELSE pc
    /\ UNCHANGED <<scheme, pfse, lpfse, native, T, splits, ciphertexts, plaintexts, db>>

FreeNext ==
    \/ FreeKeyGenerate
    \/ FreeSetParams
    \/ FreePartition
    \/ FreeTransform
    \/ FreeSmooth
    \/ FreeInitialize
    \/ FreeEncrypt
    \/ FreeDecrypt

SpecFree == FreeInit /\ [][FreeNext]_vars

\* The same caller with a PFSE instance only.
PfseFreeInit == FreeInit /\ scheme = "pfse"

PfseFreeNext ==
    \/ FreeKeyGenerate
    \/ FreeSetParams
    \/ FreePartition
    \/ FreeTransform
    \/ FreeSmooth
    \/ FreeEncrypt
    \/ FreeDecrypt

SpecPfseFree == PfseFreeInit /\ [][PfseFreeNext]_vars


\* The nonce decrypt of the scheme under test opens a ciphertext with.
DecryptNonce(ciphertext) ==
    IF scheme = "native" THEN native_decrypt_nonce(native, ciphertext) ELSE ZeroNonce

\* AEAD processing of the ciphertext fails: the instance has no valid key, the
\* text is not base64, or the tag does not verify.
AeadFails(ciphertext) ==
    \/ ~ValidKey(KeyOf)
    \/ decode_and_open(KeyOf, DecryptNonce(ciphertext), ciphertext) = None

\* C16: in every scheme, decrypt of an input whose AEAD processing fails (no
\* valid key, malformed base64, tag mismatch) returns None and never aborts.
C16_DecryptFailurePolicy ==
    \A ciphertext \in DecryptInputs :
        AeadFails(ciphertext) => DecryptOf(ciphertext) = None


\* C17: partition on a PFSE instance on which key_generate was never called
\* fails as not ready and produces no partitions, also after set_params.
C17_PartitionRequiresKey ==
    (scheme = "pfse" /\ pfse.key = NoKey) =>
        /\ pfse.partitions = <<>>
        /\ out.op = "partition" => out.res.tag = "Panic"


\* C18: on a PFSE instance on which set_params never succeeded, partition
\* and transform both abort; neither returns normally.
C18_MissingParamsFatal ==
    (scheme = "pfse" /\ ~pfse.is_ready /\ out.op \in {"partition", "transform"}) =>
        out.res.tag = "Panic"


\* C19: set_params with a vector whose length is not 3 changes nothing: the
\* partition rate, the scale, the advantage and the readiness flag keep their
\* values, so on an instance without parameters a following partition still
\* aborts as not ready, and on a ready instance the old parameters stay.
C19_ParamsLengthError ==
    scheme = "pfse" =>
        \A params \in ParamVectors :
            Len(params) # 3 =>
                LET after == set_params(pfse, params)
                IN  /\ after.p_partition = pfse.p_partition
                    /\ after.p_scale = pfse.p_scale
                    /\ after.p_advantage = pfse.p_advantage
                    /\ after.is_ready = pfse.is_ready
                    /\ after = pfse
                    /\ ~pfse.is_ready =>
                          \A func \in PartitionFuncs :
                          \A o \in partition(after, T, func) : o.panicked

\* set_params with a vector of a wrong length was called on a ready instance,
\* which still holds the parameters of the earlier call.
C19_Witness ==
    /\ scheme = "pfse" /\ pc = "free"
    /\ out.op = "set_params" /\ Len(out.arg) # 3
    /\ pfse.is_ready /\ pfse.p_partition = <<1, 4>>


\* The instance has been initialized: PFSE holds partitions, the LPFSE encoder
\* holds its table.
FreeInitialized ==
    \/ scheme = "pfse" /\ pfse.partitions # <<>>
    \/ scheme = "lpfse" /\ lpfse.encoder.local_table # <<>>

\* C20: once a PFSE or LPFSE instance is initialized its key never changes, so
\* in every later state each ciphertext it produced was sealed under the key
\* it holds and still decrypts.
C20_KeyStability ==
    (FreeInitialized /\ out.op = "encrypt" /\ out.res.tag = "Some") =>
        \A ciphertext \in Range(out.res.val) :
            /\ ciphertext.b64.key = KeyOf
            /\ DecryptOf(ciphertext) # None


\* The members of partition p (1-based) that came from the sample.
RealMembers(p) ==
    SelectSeq(pfse.partitions[p].inner, LAMBDA e : ~IsDummy(e[1]))

\* The number of dummies transform appended to partition p.
DummyCount(p) == Len(pfse.partitions[p].inner) - Len(RealMembers(p))

\* sum of transform for partition p: the set sizes of its real members.
SumOfSetSizes(p) ==
    SumSeq([e \in DOMAIN RealMembers(p) |->
              LET entries == pfse.local_table[RealMembers(p)[e][1]]
                  at == CHOOSE x \in DOMAIN entries : entries[x][1] = p - 1
              IN  entries[at][2]])

\* n_i of transform for partition p, from the advantage transform left.
TargetOf(p) ==
    LET real == RealMembers(p)
        f_i == Rat(SumSeq([e \in DOMAIN real |-> real[e][2] * real[e][2]]),
                   pfse.message_num * pfse.message_num)
    IN  AsUsize(RCeil(RDiv(RMul(RInt(pfse.message_num), f_i), pfse.p_advantage)))

\* C24: transform appends exactly n_i - sum dummies to partition i when
\* n_i > sum and none when n_i <= sum, and no dummy enters local_table.
C24_DummyPadding ==
    (scheme = "pfse" /\ pc = "transformed") =>
        /\ \A p \in DOMAIN pfse.partitions :
              DummyCount(p) = IF TargetOf(p) > SumOfSetSizes(p)
                              THEN TargetOf(p) - SumOfSetSizes(p) ELSE 0
        /\ \A m \in DOMAIN pfse.local_table : ~IsDummy(m)


\* C25: after partition, and still after transform has appended dummies, the
\* members of each partition are ordered by count descending.
C25_DescendingMembers ==
    (scheme = "pfse" /\ pc \in {"partitioned", "transformed"}) =>
        \A p \in DOMAIN pfse.partitions :
            LET inner == pfse.partitions[p].inner
            IN  \A e \in 1..(Len(inner) - 1) : inner[e][2] >= inner[e + 1][2]


\* The (message, entry, j) triples encrypt walks over the local table.
TokenSlots ==
    UNION {UNION {{<<m, e, j>> : j \in 0..(pfse.local_table[m][e][2] - 1)} :
                    e \in DOMAIN pfse.local_table[m]} :
             m \in DOMAIN pfse.local_table}

\* The AEAD plaintext encrypt builds for a slot.
PlaintextOf(slot) ==
    pfse_token(slot[1], pfse.local_table[slot[1]][slot[2]][1], slot[3])

\* C27: after partition and transform the AEAD plaintexts built by encrypt
\* over all messages, entries and j are pairwise distinct, no message has two
\* entries with one partition index, and encrypt(m) returns set-size-many
\* ciphertexts without duplicates.
C27_PlaintextsUnique ==
    (scheme = "pfse" /\ pc = "transformed") =>
        /\ \A s, t \in TokenSlots : s # t => PlaintextOf(s) # PlaintextOf(t)
        /\ \A m \in DOMAIN pfse.local_table :
           \A e, f \in DOMAIN pfse.local_table[m] :
               e # f => pfse.local_table[m][e][1] # pfse.local_table[m][f][1]
        /\ \A m \in DOMAIN pfse.local_table :
              LET c == pfse_encrypt(pfse, m)
              IN  /\ c.tag = "Some"
                  /\ Len(c.val) = SumSeq([e \in DOMAIN pfse.local_table[m] |->
                                            pfse.local_table[m][e][2]])
                  /\ \A x, y \in DOMAIN c.val : x # y => c.val[x] # c.val[y]

\* transform has run on a sample that holds "a" and "a|", with a message
\* split over two partitions.
C27_Witness ==
    /\ scheme = "pfse" /\ pc = "transformed"
    /\ {<<97>>, <<97, 124>>} \subseteq DOMAIN pfse.local_table
    /\ \E m \in DOMAIN pfse.local_table : Len(pfse.local_table[m]) >= 2
    /\ Cardinality(TokenSlots) >= 3


\* C28: in whatever order key_generate, set_params, partition, transform and
\* smooth are called, no element smooth() returns is the raw bytes of a
\* training message: each is a base64 ciphertext or the bytes of a dummy.
C28_NoPlaintextInStream ==
    (scheme = "pfse" /\ out.op = "smooth") =>
        \A c \in Range(ciphertexts) :
            "raw" \in DOMAIN c => (IsDummy(c.raw) /\ c.raw \notin Range(T))


\* ---- The `while i < histogram_vec.len()` loop of partition, one iteration
\* ---- per step. `out.res` holds the locals histogram_vec, i and group of the
\* ---- call in progress, `pfse.partitions` what the loop has pushed.

\* The outcomes of one iteration from the locals (hv, i, group): the
\* partition pushed, the locals after it, whether it split an entry and
\* whether it left the loop with `break`.
partition_iteration(p_partition, p_scale, n, func, hv, i, group) ==
    LET value == RMul(call_partition_func(func, p_partition, group), p_scale)
    IN
    IF RLe(RMul(value, RInt(n)), RInt(1))
    THEN {[part |-> Partition_new(SubSeq(hv, i + 1, Len(hv)), group,
                                  Rat(SumSeq(Counts(SubSeq(hv, i + 1, Len(hv)))), n)),
           histogram_vec |-> hv, i |-> i, group |-> group,
           split |-> FALSE, broke |-> TRUE]}
    ELSE
      LET g == grow(hv, i, 0, n, value)
          j == g[1]
          sum == Rat(g[2], n)
      IN
      IF RLt(value, sum)
      THEN
        LET diff == RSub(sum, value)
            cnt == hv[j][2]
            message_first_part ==
                <<hv[j][1], AsUsize(RCeil(RMul(RInt(cnt), RSub(RInt(1), diff))))>>
            message_second_part ==
                <<hv[j][1], AsUsize(RFloor(RMul(RInt(cnt), diff)))>>
            hv1 == [hv EXCEPT ![j] = message_first_part]
            part == Partition_new(SubSeq(hv1, i + 1, j), group, value)
        IN
        IF message_second_part[2] # 0
        THEN {[part |-> part,
               histogram_vec |-> InsertAt(hv1, pos + j, message_second_part),
               i |-> j, group |-> group + 1, split |-> TRUE, broke |-> FALSE] :
                 pos \in binary_search_pos(SubSeq(hv1, j + 1, Len(hv1)),
                                           message_second_part[2])}
        ELSE {[part |-> part, histogram_vec |-> hv1,
               i |-> j, group |-> group + 1, split |-> TRUE, broke |-> FALSE]}
      ELSE {[part |-> Partition_new(SubSeq(hv, i + 1, j), group, value),
             histogram_vec |-> hv,
             i |-> j, group |-> group + 1, split |-> FALSE, broke |-> FALSE]}

\* A new PFSE instance; the caller has not chosen a sample yet.
LoopInit ==
    /\ scheme = "pfse"
    /\ pc = "fresh"
    /\ T = <<>>
    /\ pfse = ContextPFSE_default
    /\ lpfse = ContextLPFSE_new(<<1, 4>>, EncoderIHBE_new)
    /\ native = ContextNative_new(FALSE)
    /\ splits = 0
    /\ ciphertexts = <<>>
    /\ plaintexts = <<>>
    /\ db = <<>>
    /\ out = NoCall

\* set_params([lambda, k0, A]) with 0 < lambda <= 1 and k0 >= 1.
LoopSetParams ==
    /\ pc = "fresh"
    /\ \E l \in Lambdas, k0 \in Scales :
          /\ pfse' = set_params(pfse, <<l, k0, <<1, 2>>>>)
          /\ out' = [op |-> "set_params", arg |-> <<l, k0, <<1, 2>>>>, res |-> None]
    /\ pc' = "ready"
    /\ UNCHANGED <<scheme, lpfse, native, T, splits, ciphertexts, plaintexts, db>>

\* partition(input, func) up to the loop: the ready() check has passed,
\* message_num is set and histogram_vec is built.
PartitionEnter ==
    /\ pc = "ready"
    /\ \E input \in Inputs, func \in PartitionFuncs :
          /\ T' = input
          /\ pfse' = [pfse EXCEPT !.partition_func = func, !.message_num = Len(input)]
          /\ \E hv \in build_histogram_vec(build_histogram(input)) :
                out' = [op |-> "partition", arg |-> input,
                        res |-> [histogram_vec |-> hv, i |-> 0, group |-> 1]]
    /\ pc' = "looping"
    /\ UNCHANGED <<scheme, lpfse, native, splits, ciphertexts, plaintexts, db>>

\* One iteration of the loop.
PartitionIterate ==
    /\ pc = "looping"
    /\ out.res.i < Len(out.res.histogram_vec)
    /\ \E o \in partition_iteration(pfse.p_partition, pfse.p_scale, pfse.message_num,
                                    pfse.partition_func, out.res.histogram_vec,
                                    out.res.i, out.res.group) :
          /\ pfse' = [pfse EXCEPT !.partitions = Append(@, o.part)]
          /\ out' = [out EXCEPT !.res = [histogram_vec |-> o.histogram_vec,
                                         i |-> o.i, group |-> o.group]]
          /\ splits' = IF o.split THEN splits + 1 ELSE splits
          /\ pc' = IF o.broke THEN "partitioned" ELSE pc
    /\ UNCHANGED <<scheme, lpfse, native, T, ciphertexts, plaintexts, db>>

\* The loop condition is false and partition returns.
PartitionReturn ==
    /\ pc = "looping"
    /\ ~(out.res.i < Len(out.res.histogram_vec))
    /\ pc' = "partitioned"
    /\ UNCHANGED <<scheme, pfse, lpfse, native, T, splits, ciphertexts, plaintexts, db, out>>

LoopNext ==
    \/ LoopSetParams
    \/ PartitionEnter
    \/ PartitionIterate
    \/ PartitionReturn

\* Once in the loop the call runs on, partition being one call of one thread:
\* weak fairness of the steps of the loop, written with the states in which
\* such a step is enabled, those with pc = "looping".
LoopFairness ==
    []<>(pc # "looping") \/ []<><<PartitionIterate \/ PartitionReturn>>_vars

SpecLoop == LoopInit /\ [][LoopNext]_vars /\ LoopFairness


\* The total count of the histogram entries the loop has still to place.
Remaining ==
    SumSeq(Counts(SubSeq(out.res.histogram_vec, out.res.i + 1,
                         Len(out.res.histogram_vec))))

\* C29: the partition loop ends after finitely many iterations: every
\* iteration emits a non-empty partition whose members have count >= 1, the
\* partitions emitted carry the indices 1, 2, 3, ... in order, the remaining
\* total count strictly decreases over every iteration that continues the
\* loop, and the call returns.
C29_PartitionTerminates ==
    /\ [](\A p \in DOMAIN pfse.partitions :
             /\ pfse.partitions[p].inner # <<>>
             /\ \A e \in DOMAIN pfse.partitions[p].inner :
                   pfse.partitions[p].inner[e][2] >= 1
             /\ pfse.partitions[p].meta.index = p)
    /\ [][(pc = "looping" /\ pc' = "looping") => Remaining' < Remaining]_vars
    /\ (pc = "looping") ~> (pc = "partitioned")

\* The loop has returned after three or more iterations, two of which split
\* an entry and re-inserted its remainder.
C29_Witness ==
    /\ pc = "partitioned" /\ out.op = "partition"
    /\ Len(pfse.partitions) >= 3
    /\ splits >= 2


\* ---------------------------------------------------- EncoderBHE alone

\* Longest training sample handed to EncoderBHE::initialize on its own.
MaxLenBhe == 22

\* The messages of those samples.
BheMsgs == {<<97>>, <<98>>}

BheInputs == UNION {SortedSeqs(l, BheMsgs) : l \in 1..MaxLenBhe}

\* A context around a new BHE encoder, and a non-empty training sample.
BheInit ==
    /\ scheme = "lpfse"
    /\ pc = "fresh"
    /\ pfse = ContextPFSE_default
    /\ lpfse \in {ContextLPFSE_new(a, EncoderBHE_new) : a \in LPAdvantages}
    /\ native = ContextNative_new(FALSE)
    /\ T \in BheInputs
    /\ splits = 0
    /\ ciphertexts = <<>>
    /\ plaintexts = <<>>
    /\ db = <<>>
    /\ out = NoCall

\* ContextLPFSE::initialize on the new context.
BheInitialize ==
    /\ pc = "fresh"
    /\ lpfse' \in lpfse_initialize(lpfse, T)
    /\ pc' = "initialized"
    /\ UNCHANGED <<scheme, pfse, native, T, splits, ciphertexts, plaintexts, db, out>>

\* One EncoderBHE::encode call for a training message.
BheEncode ==
    /\ pc = "initialized"
    /\ \E message \in Range(T) :
       \E o \in bhe_encode(lpfse.encoder, message) :
          /\ out' = [op |-> "encode", arg |-> message, res |-> o[1]]
          /\ lpfse' = [lpfse EXCEPT !.encoder = o[2]]
          /\ pc' = IF o[1].tag = "Panic" THEN "panicked" ELSE "encoded"
    /\ UNCHANGED <<scheme, pfse, native, T, splits, ciphertexts, plaintexts, db>>

\* One EncoderBHE::encode_all call for a training message.
BheEncodeAll ==
    /\ pc = "initialized"
    /\ \E message \in Range(T) :
          out' = [op |-> "encode_all", arg |-> message,
                  res |-> bhe_encode_all(lpfse.encoder, message)]
    /\ pc' = "encoded"
    /\ UNCHANGED <<scheme, pfse, lpfse, native, T, splits, ciphertexts, plaintexts, db>>

BheNext ==
    \/ BheInitialize
    \/ BheEncode
    \/ BheEncodeAll

SpecBhe == BheInit /\ [][BheNext]_vars

\* initialize got past the checked_sub and filled the table.
BheInitialized ==
    /\ pc \in {"initialized", "encoded", "panicked"}
    /\ lpfse.encoder.local_table # <<>>

\* The tags 0 .. 2^length - 1.
BheTags == 0..(Pow2(lpfse.encoder.length) - 1)

\* C30: after a successful EncoderBHE::initialize every training message m
\* has 1 <= band(m) <= 2^length, with band(m) = 2^length for a most frequent
\* message; encode(m) samples its tag from the non-empty range [0, band(m))
\* and encode_all(m) lists exactly band(m) tokens.
C30_BandBounds ==
    BheInitialized =>
        /\ \A m \in Range(T) :
              LET band == bhe_band(lpfse.encoder, lpfse.encoder.local_table[m][1])
              IN  /\ 1 <= band
                  /\ band <= Pow2(lpfse.encoder.length)
                  /\ (\A x \in Range(T) : lpfse.encoder.local_table[x][1]
                                            <= lpfse.encoder.local_table[m][1])
                        => band = Pow2(lpfse.encoder.length)
        /\ pc # "panicked"
        /\ out.op = "encode" =>
              \E h \in BheTags : out.res = Some(lp_token(out.arg, h))
        /\ out.op = "encode_all" =>
              /\ out.res.tag = "Some"
              /\ Len(out.res.val) \in 1..Pow2(lpfse.encoder.length)


\* -------------------------------------------------------------- attack.rs

\* Most distinct ciphertext_vec in an observed stream.
MaxAtkCts == 4

\* The messages, set sizes and counts of the local tables the attackers
\* are run on.
AtkMsgs == {<<97>>, <<98>>, <<99>>}
AtkSizes == {1, 2}
AtkCounts == {3, 4, 6}

\* The p of LpAttacker::new(p).
AtkNorms == {2}

\* The j-th ciphertext of message m, and a ciphertext of no message (what
\* smooth emits for a dummy).
AtkCt(m, j) == m \o <<j>>
AtkDummyCt == <<0>>

\* x < y for Vec<u8>: lexicographic.
RECURSIVE BytesLess(_, _)
BytesLess(x, y) ==
    IF y = <<>> THEN FALSE
    ELSE IF x = <<>> THEN TRUE
    ELSE IF Head(x) # Head(y) THEN Head(x) < Head(y)
    ELSE BytesLess(Tail(x), Tail(y))

\* slice::sort of a vector of byte strings: the order is total, so the
\* result is the one sorted arrangement.
RECURSIVE SortBytes(_)
SortBytes(v) ==
    IF v = <<>> THEN <<>>
    ELSE LET k == CHOOSE i \in DOMAIN v : \A j \in DOMAIN v : ~BytesLess(v[j], v[i])
         IN  <<v[k]>> \o SortBytes(SubSeq(v, 1, k - 1) \o SubSeq(v, k + 1, Len(v)))

\* The two-pointer loop of util::intersect from positions i, j (0-based) of
\* the sorted vectors.
RECURSIVE intersect_loop(_, _, _, _)
intersect_loop(lhs_vec, rhs_vec, i, j) ==
    IF ~(i < Len(lhs_vec) /\ j < Len(rhs_vec)) THEN <<>>
    ELSE IF lhs_vec[i + 1] = rhs_vec[j + 1]
    THEN <<lhs_vec[i + 1]>> \o intersect_loop(lhs_vec, rhs_vec, i + 1, j + 1)
    ELSE IF BytesLess(rhs_vec[j + 1], lhs_vec[i + 1])
    THEN intersect_loop(lhs_vec, rhs_vec, i, j + 1)
    ELSE intersect_loop(lhs_vec, rhs_vec, i + 1, j)

\* util::intersect
intersect(lhs, rhs) == intersect_loop(SortBytes(lhs), SortBytes(rhs), 0, 0)

\* util::compute_ciphertext_weight: the share of each ciphertext inside its
\* own set.
compute_ciphertext_weight(ciphertext_sets) ==
    LET all == UNION {Range(ciphertext_sets[m]) : m \in DOMAIN ciphertext_sets}
        own(c) == CHOOSE m \in DOMAIN ciphertext_sets : c \in Range(ciphertext_sets[m])
    IN  [c \in all |->
            F64DivInts[Cardinality({i \in DOMAIN ciphertext_sets[own(c)] :
                                       ciphertext_sets[own(c)][i] = c}),
                       Len(ciphertext_sets[own(c)])]]

\* The auxiliary vectors the attackers can build from a local table whose
\* set sizes are positive: one entry <<message, size, count>> per value,
\* collected in the map's iteration order and stably sorted by count / size
\* descending. Entries of one message with equal weight keep their order.
auxiliary_of(local_table) ==
    LET entries == UNION {{<<m, k>> : k \in DOMAIN local_table[m]} : m \in DOMAIN local_table}
        n == Cardinality(entries)
        val(e) == local_table[e[1]][e[2]]
        weight(e) == <<val(e)[3], val(e)[2]>>
    IN  {[i \in 1..n |-> <<g[i][1], val(g[i])[2], val(g[i])[3]>>] :
            g \in {h \in [1..n -> entries] :
                     /\ \A a, b \in 1..n : a # b => h[a] # h[b]
                     /\ \A a \in 1..(n - 1) : RLe(weight(h[a + 1]), weight(h[a]))
                     /\ \A a, b \in 1..n :
                           (a < b /\ h[a][1] = h[b][1]
                              /\ ~RLt(weight(h[b]), weight(h[a])))
                              => h[a][2] < h[b][2]}}

\* The `while i < ciphertexts.len()` loop of MLEAttacker::attack; both
\* auxiliary.get(cur).unwrap() and the slice ciphertexts[i..i + size] abort
\* when they reach past the end.
RECURSIVE mle_assign(_, _, _, _, _)
mle_assign(auxiliary, ciphertext_vec, cur, i, assignment) ==
    IF ~(i < Len(ciphertext_vec)) THEN Some(assignment)
    ELSE IF cur >= Len(auxiliary) THEN [tag |-> "Panic"]
    ELSE LET current_size == auxiliary[cur + 1][2]
         IN  IF i + current_size > Len(ciphertext_vec) THEN [tag |-> "Panic"]
             ELSE mle_assign(auxiliary, ciphertext_vec, cur + 1, i + current_size,
                             Append(assignment,
                                    <<cur, [k \in 1..current_size |-> ciphertext_vec[i + k][1]]>>))

\* The inner loop of MLEAttacker::get_recovery_rate over `common`.
RECURSIVE mle_add_common(_, _, _, _)
mle_add_common(sum, common, message_weight, ciphertext_weight_map) ==
    IF common = <<>> THEN Some(sum)
    ELSE IF Head(common) \notin DOMAIN ciphertext_weight_map THEN [tag |-> "Panic"]
    ELSE mle_add_common(F64Add[sum, F64Mul[message_weight,
                                           ciphertext_weight_map[Head(common)]]],
                        Tail(common), message_weight, ciphertext_weight_map)

\* MLEAttacker::get_recovery_rate from the k-th assignment on.
RECURSIVE mle_get_recovery_rate(_, _, _, _, _, _, _)
mle_get_recovery_rate(assignment, message_num, correct, auxiliary, ciphertext_weight_map, k, sum) ==
    IF k > Len(assignment) THEN Some(sum)
    ELSE LET current_message == auxiliary[assignment[k][1] + 1][1]
             count == auxiliary[assignment[k][1] + 1][3]
         IN  IF current_message \notin DOMAIN correct THEN [tag |-> "Panic"]
             ELSE LET common == intersect(assignment[k][2], correct[current_message])
                      next == mle_add_common(sum, common,
                                             F64DivInts[count, message_num],
                                             ciphertext_weight_map)
                  IN  IF next.tag = "Panic" THEN next
                      ELSE mle_get_recovery_rate(assignment, message_num, correct,
                                                 auxiliary, ciphertext_weight_map,
                                                 k + 1, next.val)

\* MLEAttacker::attack: the outcomes of one call. An outcome records the
\* sorted vectors and the assignment next to the returned rate.
mle_attack(correct, local_table, raw_ciphertexts, ciphertext_weight) ==
    {LET message_num == SumSeq([k \in DOMAIN auxiliary |-> auxiliary[k][3]])
         assignment == mle_assign(auxiliary, ciphertext_vec, 0, 0, <<>>)
         rate == IF assignment.tag = "Panic" THEN assignment
                 ELSE mle_get_recovery_rate(assignment.val, message_num, correct,
                                            auxiliary, ciphertext_weight, 1, F64Zero)
     IN  [rate |-> rate, auxiliary |-> auxiliary, ciphertext_vec |-> ciphertext_vec,
          assignment |-> assignment] :
        auxiliary \in auxiliary_of(local_table),
        ciphertext_vec \in build_histogram_vec(build_histogram(raw_ciphertexts))}

\* util::pad_auxiliary: random messages of count 1 until the vectors have
\* the same length. An entry of LpAttacker is (message, weight, count); the
\* weight is read by the sort alone, so the model keeps the set size in
\* its place, 1 for a padded entry.
pad_auxiliary(auxiliary, ciphertext_vec) ==
    IF Len(auxiliary) < Len(ciphertext_vec)
    THEN auxiliary \o [k \in 1..(Len(ciphertext_vec) - Len(auxiliary)) |->
                          <<random(DEFAULT_RANDOM_LEN, <<k>>), 1, 1>>]
    ELSE auxiliary

\* i64::pow
RECURSIVE IPow(_, _)
IPow(x, p) == IF p = 0 THEN 1 ELSE x * IPow(x, p - 1)

\* LpAttacker::build_cost_matrix for vectors of the same length.
build_cost_matrix(p, auxiliary, ciphertext_vec) ==
    [i \in DOMAIN auxiliary |->
        [j \in DOMAIN ciphertext_vec |-> IPow(auxiliary[i][3] - ciphertext_vec[j][2], p)]]

\* kuhn_munkres_min(&cost_matrix).1: the assignments of rows to columns of
\* minimal total cost; entry i is the 0-based column of row i.
kuhn_munkres_min(cost_matrix) ==
    LET n == Len(cost_matrix)
        perms == {g \in [1..n -> 1..n] : \A a, b \in 1..n : a # b => g[a] # g[b]}
        total == [g \in perms |-> SumSeq([i \in 1..n |-> cost_matrix[i][g[i]]])]
        least == CHOOSE t \in {total[g] : g \in perms} : \A g \in perms : t <= total[g]
    IN  {[i \in 1..n |-> g[i] - 1] : g \in {h \in perms : total[h] = least}}

\* LpAttacker::get_recovery_rate from the i-th row on (0-based).
RECURSIVE lp_get_recovery_rate(_, _, _, _, _, _, _, _)
lp_get_recovery_rate(assignment, message_num, correct, auxiliary, ciphertext_vec, ciphertext_weight_map, i, sum) ==
    IF i >= Len(assignment) THEN Some(sum)
    ELSE LET message == auxiliary[i + 1][1]
             message_weight == F64DivInts[auxiliary[i + 1][3], message_num]
             ciphertext == ciphertext_vec[assignment[i + 1] + 1][1]
         IN  IF message \notin DOMAIN correct
             THEN lp_get_recovery_rate(assignment, message_num, correct, auxiliary,
                                       ciphertext_vec, ciphertext_weight_map, i + 1, sum)
             ELSE IF ciphertext \notin DOMAIN ciphertext_weight_map
             THEN [tag |-> "Panic"]
             ELSE LET hits == Cardinality({k \in DOMAIN correct[message] :
                                              correct[message][k] = ciphertext})
                      term == IF hits = 0 THEN F64Zero
                              ELSE F64Mul[message_weight,
                                          F64MulInt[ciphertext_weight_map[ciphertext], hits]]
                  IN  lp_get_recovery_rate(assignment, message_num, correct, auxiliary,
                                           ciphertext_vec, ciphertext_weight_map, i + 1,
                                           F64Add[sum, term])

\* LpAttacker::attack for a local table with no more entries than the
\* stream has distinct ciphertext_vec, so that the padded vectors match.
lp_attack(p, correct, local_table, raw_ciphertexts, ciphertext_weight) ==
    UNION {LET auxiliary == pad_auxiliary(sorted, ciphertext_vec)
               message_num == SumSeq([k \in DOMAIN auxiliary |-> auxiliary[k][3]])
           IN  {[rate |-> lp_get_recovery_rate(assignment, message_num, correct,
                                               auxiliary, ciphertext_vec,
                                               ciphertext_weight, 0, F64Zero),
                 auxiliary |-> auxiliary, ciphertext_vec |-> ciphertext_vec,
                 assignment |-> Some(assignment)] :
                  assignment \in kuhn_munkres_min(build_cost_matrix(p, auxiliary, ciphertext_vec))} :
        sorted \in auxiliary_of(local_table),
        ciphertext_vec \in build_histogram_vec(build_histogram(raw_ciphertexts))}


\* The local tables: every message has one value (index 0, size, count).
AtkTables ==
    UNION {[S -> {<<<<0, s, c>>>> : s \in AtkSizes, c \in AtkCounts}] : S \in SUBSET AtkMsgs}

\* The ciphertexts of message m: one per slot of its set.
AtkSet(local_table, m) == [j \in 1..local_table[m][1][2] |-> AtkCt(m, j)]

\* The stream a message contributes: its `count` occurrences shared evenly
\* among its ciphertexts, each of them ceil(count / size) times.
RECURSIVE AtkStreamOf(_, _, _)
AtkStreamOf(local_table, m, j) ==
    IF m \notin DOMAIN local_table \/ j = 0 THEN <<>>
    ELSE AtkStreamOf(local_table, m, j - 1)
            \o Repeat(AtkCt(m, j),
                      (local_table[m][1][3] + local_table[m][1][2] - 1)
                         \div local_table[m][1][2])

\* The observed stream of a table, followed by `extra` ciphertexts of no
\* message.
AtkStream(local_table, extra) ==
    LET of(m) == AtkStreamOf(local_table, m,
                             IF m \in DOMAIN local_table THEN local_table[m][1][2] ELSE 0)
    IN  of(<<97>>) \o of(<<98>>) \o of(<<99>>) \o Repeat(AtkDummyCt, extra)

\* The correct maps: every message of the table with its distinct
\* ciphertexts, or that map without one of the messages.
AtkCorrects(local_table) ==
    {[m \in S |-> AtkSet(local_table, m)] :
        S \in {DOMAIN local_table} \cup {DOMAIN local_table \ {x} : x \in DOMAIN local_table}}

\* A local table, the stream observed for it, a correct map and the
\* weights computed from the correct map.
AttackInit ==
    /\ scheme = "pfse"
    /\ pc = "fresh"
    /\ \E local_table \in AtkTables, extra \in 0..1 :
          /\ Cardinality(Range(AtkStream(local_table, extra))) <= MaxAtkCts
          /\ pfse = [ContextPFSE_default EXCEPT !.local_table = local_table]
          /\ ciphertexts = AtkStream(local_table, extra)
          /\ \E correct \in AtkCorrects(local_table) :
                out = [op |-> "none",
                       arg |-> [correct |-> correct,
                                ciphertext_weight |-> compute_ciphertext_weight(correct)],
                       res |-> None]
    /\ lpfse = ContextLPFSE_new(<<1, 4>>, EncoderIHBE_new)
    /\ native = ContextNative_new(FALSE)
    /\ T = <<>>
    /\ splits = 0
    /\ plaintexts = <<>>
    /\ db = <<>>

\* MLEAttacker::new().attack(correct, local_table, raw_ciphertexts, ciphertext_weight)
MleAttack ==
    /\ pc = "fresh"
    /\ \E o \in mle_attack(out.arg.correct, pfse.local_table, ciphertexts,
                           out.arg.ciphertext_weight) :
          /\ out' = [op |-> "mle_attack", arg |-> out.arg, res |-> o]
          /\ pc' = IF o.rate.tag = "Panic" THEN "panicked" ELSE "attacked"
    /\ UNCHANGED <<scheme, pfse, lpfse, native, T, splits, ciphertexts, plaintexts, db>>

\* LpAttacker::new(p).attack(correct, local_table, raw_ciphertexts, ciphertext_weight)
LpAttack ==
    /\ pc = "fresh"
    /\ \E p \in AtkNorms :
       \E o \in lp_attack(p, out.arg.correct, pfse.local_table, ciphertexts,
                          out.arg.ciphertext_weight) :
          /\ out' = [op |-> "lp_attack", arg |-> out.arg, res |-> o]
          /\ pc' = IF o.rate.tag = "Panic" THEN "panicked" ELSE "attacked"
    /\ UNCHANGED <<scheme, pfse, lpfse, native, T, splits, ciphertexts, plaintexts, db>>

AttackNext ==
    \/ MleAttack
    \/ LpAttack

SpecAttack == AttackInit /\ [][AttackNext]_vars


\* An attack has returned, and the correct map held every message of the
\* local table with its distinct ciphertexts.
AtkHonestReturn ==
    /\ pc = "attacked"
    /\ DOMAIN out.arg.correct = DOMAIN pfse.local_table

\* C21: when correct maps each message to its set of distinct ciphertexts
\* and the weight of a ciphertext is its share inside its own set, the rate
\* either attacker returns lies in [0, 1].
C21_RecoveryRateBounds ==
    AtkHonestReturn =>
        /\ F64Le[F64Zero, out.res.rate.val]
        /\ F64Le[out.res.rate.val, F64One]

\* C22: an attack whose assignment was built returns a rate whatever the
\* correct map and the weight map hold: no lookup aborts it.
C22_AttackersNeverFail ==
    (out.op \in {"mle_attack", "lp_attack"} /\ out.res.assignment.tag = "Some")
        => out.res.rate.tag = "Some"

\* The sum of the set sizes of the first k auxiliary entries.
AtkOffset(k) == SumSeq([e \in 1..k |-> out.res.auxiliary[e][2]])

\* C26: MLEAttacker::attack reads neither vector past its end, and assigns
\* to the k-th auxiliary entry exactly the block ct[i..i+s] with s its set
\* size and i the sum of the set sizes before it; the blocks end where the
\* histogram ends.
C26_GreedyBlocks ==
    out.op = "mle_attack" =>
        /\ out.res.assignment.tag = "Some"
        /\ \A k \in DOMAIN out.res.assignment.val :
              /\ out.res.assignment.val[k][1] = k - 1
              /\ out.res.assignment.val[k][2]
                    = [j \in 1..out.res.auxiliary[k][2] |->
                          out.res.ciphertext_vec[AtkOffset(k - 1) + j][1]]
        /\ AtkOffset(Len(out.res.assignment.val)) = Len(out.res.ciphertext_vec)


\* ------------------------------------------------- Connector: Clone, Drop

\* Most clones of the context alive at once, and most documents inserted.
MaxClones == 2
MaxDocs == 2

\* Connector::new(address, db_name, drop): the handle of the one database
\* and the flag.
Connector_new(drop) == [drop |-> drop]

\* impl Drop for Connector: the store after the connector of a destroyed
\* value has been dropped.
connector_drop(conn, store) ==
    IF conn.tag = "Some" /\ conn.val.drop THEN <<>> ELSE store

\* ContextLPFSE with its conn field.
ContextLPFSE_conn(ctx, conn) ==
    [advantage |-> ctx.advantage, key |-> ctx.key, encoder |-> ctx.encoder,
     conn |-> conn]

\* lpfse holds the owning context, None once it is destroyed, and the
\* clones of it that are alive.
DropInit ==
    /\ scheme = "lpfse"
    /\ pc = "fresh"
    /\ pfse = ContextPFSE_default
    /\ \E a \in LPAdvantages, e \in {EncoderIHBE_new, EncoderBHE_new} :
          lpfse = [owner |-> Some(ContextLPFSE_conn(ContextLPFSE_new(a, e), None)),
                   clones |-> <<>>]
    /\ native = ContextNative_new(FALSE)
    /\ T \in {t \in LPInputs : Len(t) = 1}
    /\ splits = 0
    /\ ciphertexts = <<>>
    /\ plaintexts = <<>>
    /\ db = <<>>
    /\ out = NoCall

\* ContextLPFSE::initialize(messages, address, db_name, drop): when
\* Connector::new is Ok the assignment to self.conn drops the connector held
\* before.
DropInitialize ==
    /\ lpfse.owner.tag = "Some"
    /\ \E drop \in BOOLEAN, ok \in BOOLEAN :
       \E ctx \in lpfse_initialize(lpfse.owner.val, T) :
          /\ lpfse' = [lpfse EXCEPT !.owner =
                          Some(IF ok THEN [ctx EXCEPT !.conn = Some(Connector_new(drop))]
                               ELSE ctx)]
          /\ db' = IF ok THEN connector_drop(lpfse.owner.val.conn, db) ELSE db
          /\ out' = [op |-> "initialize", arg |-> drop, res |-> None]
    /\ pc' = "initialized"
    /\ UNCHANGED <<scheme, pfse, native, T, splits, ciphertexts, plaintexts>>

\* get_conn().insert(..) on the owning context: one more document.
DropInsert ==
    /\ lpfse.owner.tag = "Some"
    /\ lpfse.owner.val.conn.tag = "Some"
    /\ Len(db) < MaxDocs
    /\ db' = Append(db, [b64 |-> T[1]])
    /\ out' = [op |-> "insert", arg |-> <<>>, res |-> None]
    /\ UNCHANGED <<scheme, pc, pfse, lpfse, native, T, splits, ciphertexts, plaintexts>>

\* ContextLPFSE::clone on the owning context.
DropClone ==
    /\ lpfse.owner.tag = "Some"
    /\ Len(lpfse.clones) < MaxClones
    /\ lpfse' = [lpfse EXCEPT !.clones = Append(@, lpfse.owner.val)]
    /\ out' = [op |-> "clone", arg |-> <<>>, res |-> None]
    /\ UNCHANGED <<scheme, pc, pfse, native, T, splits, ciphertexts, plaintexts, db>>

\* A clone goes out of scope: its fields are dropped, the connector among
\* them.
DropCloneEnd ==
    /\ \E i \in DOMAIN lpfse.clones :
          /\ db' = connector_drop(lpfse.clones[i].conn, db)
          /\ lpfse' = [lpfse EXCEPT !.clones = SubSeq(@, 1, i - 1) \o SubSeq(@, i + 1, Len(@))]
          /\ out' = [op |-> "drop_clone", arg |-> lpfse.clones[i].conn, res |-> None]
    /\ UNCHANGED <<scheme, pc, pfse, native, T, splits, ciphertexts, plaintexts>>

\* The owning context goes out of scope.
DropOwnerEnd ==
    /\ lpfse.owner.tag = "Some"
    /\ db' = connector_drop(lpfse.owner.val.conn, db)
    /\ lpfse' = [lpfse EXCEPT !.owner = None]
    /\ out' = [op |-> "drop_owner", arg |-> lpfse.owner.val.conn, res |-> None]
    /\ pc' = "destroyed"
    /\ UNCHANGED <<scheme, pfse, native, T, splits, ciphertexts, plaintexts>>

DropNext ==
    \/ DropInitialize
    \/ DropInsert
    \/ DropClone
    \/ DropCloneEnd
    \/ DropOwnerEnd

SpecDrop == DropInit /\ [][DropNext]_vars

\* The connector of the destroyed value had the flag set.
FlagSet(conn) == conn.tag = "Some" /\ conn.val.drop

\* C23: with the flag set the store is deleted when the owning context is
\* destroyed; no other step deletes it, neither while the owning context is
\* alive (a clone destroyed first) nor with the flag clear.
C23_DropOnDestruct ==
    /\ [][(out'.op = "drop_owner" /\ FlagSet(out'.arg)) => db' = <<>>]_vars
    /\ [][(db # <<>> /\ db' = <<>>) => (out'.op = "drop_owner" /\ FlagSet(out'.arg))]_vars

=============================================================================
